---- MODULE Spec2Model ----
(***************************************************************************)
(* A model of the get-value financial engine: the safe-arithmetic helpers, *)
(* the TTM rules of DataNormalizer and InsightsAgent, the Piotroski score, *)
(* the Newton-Raphson IRR solver of cf_irr_tab.py and the quality          *)
(* checklist of render_cf_irr_tab.                                         *)
(*                                                                         *)
(* Python values are records [k, n, d]: k is the kind of the value, and a  *)
(* finite number is the reduced fraction n/d with d > 0.                   *)
(***************************************************************************)
EXTENDS Integers, Sequences, FiniteSets, TLC

VARIABLES
    raw_data,   \* the dataset mapping held by DataNormalizer / InsightsAgent
    fn,         \* the function or method that was called last ("none" before)
    args,       \* the arguments of that call
    ret,        \* what the call returned, or Raise when it ended in an exception
    cashflows,  \* _irr_calc: the cash-flow vector
    max_iter,   \* _irr_calc: the iteration bound
    r,          \* _irr_calc: the current rate, on the fixed-point grid
    it,         \* _irr_calc: Newton-Raphson steps performed so far
    pc,         \* _irr_calc: position in the function
    path,       \* _irr_calc: the exit the call took
    session_state  \* st.session_state: what the application keeps between passes

vars == <<raw_data, fn, args, ret, cashflows, max_iter, r, it, pc, path,
          session_state>>

----------------------------------------------------------------------------
(* Bounds of the model                                                      *)

\* Largest magnitude of a finite number drawn as an input.
MaxNum == 3
\* Largest value of the `years` argument of the CAGR helpers.
MaxYears == 3
\* The CAGR result is kept to 1/CagrScale (floor).
CagrScale == 100

----------------------------------------------------------------------------
(* Python values                                                            *)

Abs(x) == IF x < 0 THEN -x ELSE x

Sign(x) == IF x < 0 THEN -1 ELSE IF x = 0 THEN 0 ELSE 1

RECURSIVE GCD(_, _)
GCD(x, y) == IF y = 0 THEN x ELSE GCD(y, x % y)

Null    == [k |-> "null",    n |-> 0, d |-> 1]   \* None
NaN     == [k |-> "nan",     n |-> 0, d |-> 1]   \* float('nan')
Text    == [k |-> "str",     n |-> 0, d |-> 1]   \* a non-numeric string
NM      == [k |-> "str",     n |-> 1, d |-> 1]   \* the string "N/M"
PosInf  == [k |-> "inf",     n |-> 1, d |-> 1]   \* float('inf')
NegInf  == [k |-> "inf",     n |-> -1, d |-> 1]  \* float('-inf')
Complex == [k |-> "complex", n |-> 0, d |-> 1]   \* a complex number
Raise   == [k |-> "raise",   n |-> 0, d |-> 1]   \* the call ended in an exception
Absent  == [k |-> "absent",  n |-> 0, d |-> 1]   \* key not in the record

\* The finite number x/y, reduced, for y # 0.
Frac(x, y) ==
    LET g == GCD(Abs(x), Abs(y))
        s == IF y < 0 THEN -1 ELSE 1
    IN  [k |-> "num", n |-> s * (x \div g), d |-> s * (y \div g)]

Num(x) == [k |-> "num", n |-> x, d |-> 1]

\* The string that spells the integer x, and float() of such a string.
NumStr(x) == [k |-> "numstr", n |-> x, d |-> 1]
Float(v) == IF v.k = "numstr" THEN Num(v.n) ELSE v

IsNum(v)  == v.k = "num"
IsNone(v) == v.k = "null"
IsStr(v)  == v.k \in {"str", "numstr"}
\* isinstance(v, float): a finite float, an infinity or NaN.
IsFloat(v) == v.k \in {"num", "inf", "nan"}

\* Comparisons of two floats, neither of them NaN.
Lt(a, b) ==
    IF a.k = "inf" THEN a.n < 0 /\ ~(b.k = "inf" /\ b.n < 0)
    ELSE IF b.k = "inf" THEN b.n > 0
    ELSE a.n * b.d < b.n * a.d

\* a < b, a <= b, a > b as Python evaluates them on floats: False when either
\* is NaN.
PyLt(a, b) == a.k # "nan" /\ b.k # "nan" /\ Lt(a, b)
PyGt(a, b) == PyLt(b, a)
PyLe(a, b) == a.k # "nan" /\ b.k # "nan" /\ ~Lt(b, a)
PyGe(a, b) == PyLe(b, a)

\* bool(v): None, 0 and the empty string are falsy; NaN is truthy.
Truthy(v) == ~(v.k \in {"null", "absent"}) /\ ~(v.k = "num" /\ v.n = 0)

\* a / b on floats, b # 0.
PyDiv(a, b) ==
    IF a.k = "nan" \/ b.k = "nan" THEN NaN
    ELSE IF a.k = "inf" /\ b.k = "inf" THEN NaN
    ELSE IF a.k = "inf" THEN [k |-> "inf", n |-> a.n * Sign(b.n), d |-> 1]
    ELSE IF b.k = "inf" THEN Num(0)
    ELSE Frac(a.n * b.d, a.d * b.n)

----------------------------------------------------------------------------
(* Safe arithmetic                                                          *)

\* InsightsAgent._safe: float(v), None for None, NaN and what float() rejects.
\* An infinity passes the `f == f` guard.
InsightsAgent_safe(v) ==
    IF Float(v).k \in {"num", "inf"} THEN Float(v) ELSE Null

\* financials_tab._safe: the same with math.isnan.
fin_safe(v) ==
    IF Float(v).k \in {"num", "inf"} THEN Float(v) ELSE Null

\* cf_irr_tab._s: float(v) when math.isfinite, else None.
cf_s(v) ==
    IF Float(v).k = "num" THEN Float(v) ELSE Null

InsightsAgent_div_nozero(a, b) ==
    LET sa == InsightsAgent_safe(a)
        sb == InsightsAgent_safe(b)
    IN  IF IsNone(sa) \/ IsNone(sb) THEN Null
        ELSE IF sb.k = "num" /\ sb.n = 0 THEN Raise
        ELSE PyDiv(sa, sb)

\* InsightsAgent._div
InsightsAgent_div(a, b) ==
    LET sa == InsightsAgent_safe(a)
        sb == InsightsAgent_safe(b)
    IN  IF IsNone(sa) \/ IsNone(sb) \/ (sb.k = "num" /\ sb.n = 0) THEN Null
        ELSE PyDiv(sa, sb)

\* cf_irr_tab._d
cf_d(a, b) ==
    LET sa == cf_s(a)
        sb == cf_s(b)
    IN  IF IsNone(sa) \/ IsNone(sb) \/ sb.n = 0 THEN Null
        ELSE PyDiv(sa, sb)

\* financials_tab._d
fin_d(a, b) ==
    LET sa == fin_safe(a)
        sb == fin_safe(b)
    IN  IF IsNone(sa) \/ IsNone(sb) \/ (sb.k = "num" /\ sb.n = 0) THEN Null
        ELSE PyDiv(sa, sb)

RECURSIVE IntPow(_, _)
IntPow(x, e) == IF e = 0 THEN 1 ELSE x * IntPow(x, e - 1)

\* (e / s) ** (1.0 / years) - 1 for floats e, s that passed the helper's guards
\* and years > 0.  A finite positive ratio gives the real root, kept to
\* 1/CagrScale; a negative base gives a complex number; x / 0 raises
\* ZeroDivisionError.
PowMinusOne(e, s, years) ==
    IF s.k = "num" /\ s.n = 0 THEN Raise
    ELSE LET q == PyDiv(e, s)
         IN  IF q.k = "nan" THEN NaN
             ELSE IF q.k = "inf" THEN (IF q.n > 0 \/ years = 1 THEN q ELSE Complex)
             ELSE IF q.n < 0 THEN (IF years = 1 THEN Frac(q.n - q.d, q.d) ELSE Complex)
             ELSE LET root == CHOOSE x \in 0 .. (CagrScale * (q.n + 1)) :
                                  /\ IntPow(x, years) * q.d <= q.n * IntPow(CagrScale, years)
                                  /\ IntPow(x + 1, years) * q.d > q.n * IntPow(CagrScale, years)
                  IN  Frac(root - CagrScale, CagrScale)

InsightsAgent_cagr_unguarded(end_val, start_val, years) ==
    LET e == InsightsAgent_safe(end_val)
        s == InsightsAgent_safe(start_val)
    IN  IF IsNone(e) \/ IsNone(s) \/ years <= 0 THEN NM
        ELSE LET result == PowMinusOne(e, s, years)
             IN  IF result.k = "raise" THEN NM ELSE result

\* InsightsAgent._cagr
InsightsAgent_cagr(end_val, start_val, years) ==
    LET e == InsightsAgent_safe(end_val)
        s == InsightsAgent_safe(start_val)
    IN  IF IsNone(e) \/ IsNone(s) \/ years <= 0 THEN NM
        ELSE IF PyLe(e, Num(0)) \/ PyLe(s, Num(0)) THEN NM
        ELSE LET result == PowMinusOne(e, s, years)
             IN  IF result.k = "raise" THEN NM       \* except ZeroDivisionError
                 ELSE IF ~IsFloat(result) THEN NM    \* the isinstance safety net
                 ELSE result

\* cf_irr_tab._cagr_local
cagr_local(end_val, start_val, n_years) ==
    LET ev == cf_s(end_val)
        sv == cf_s(start_val)
    IN  IF IsNone(ev) \/ IsNone(sv) \/ n_years <= 0 THEN NM
        ELSE IF PyLe(ev, Num(0)) \/ PyLe(sv, Num(0)) THEN NM
        ELSE LET result == PowMinusOne(ev, sv, n_years)
             IN  IF result.k = "raise" THEN NM           \* except ZeroDivisionError
                 ELSE IF result.k = "complex" THEN Raise \* math.isfinite(complex): TypeError
                 ELSE IF result.k = "num" THEN result
                 ELSE NM                                 \* not math.isfinite(result)

----------------------------------------------------------------------------
(* Inputs                                                                   *)

Numbers == {Num(x) : x \in -MaxNum .. MaxNum}

\* What a provider field, or an argument of a helper, may hold.
Values == Numbers \cup {Null, NaN, Text, PosInf, NegInf}

Years == -1 .. MaxYears

----------------------------------------------------------------------------
(* The _irr_calc variables are idle outside the solver's specification.     *)

IrrIdle ==
    /\ cashflows = <<>>
    /\ max_iter = 0
    /\ r = Null
    /\ it = 0
    /\ pc = "idle"
    /\ path = "none"

IrrVars == <<cashflows, max_iter, r, it, pc, path>>

\* The keys the valuation tab keeps in st.session_state (all prefixed cfirr_,
\* but for the treasury rate that app.py fetches with the ticker).
SessionKeys ==
    {"treasury_rate", "cfirr_ebitda_growth_yoy", "cfirr_ebitda_exit",
     "cfirr_fcf_growth_yoy", "cfirr_fcf_exit_yield", "cfirr_mos",
     "cfirr_wacc_override", "cfirr_wacc_rf_rate", "cfirr_wacc_beta",
     "cfirr_wacc_erp", "cfirr_show_wacc_detail",
     "cfirr_ebitda_global_growth", "cfirr_fcf_global_growth"}

\* A session that holds none of the keys yet.
EmptySession == [key \in SessionKeys |-> Absent]

----------------------------------------------------------------------------
(* Specification of the safe-arithmetic helpers: the arguments are drawn in *)
(* the initial state and each action is one call of a helper on them.       *)

InitArith ==
    /\ raw_data = <<>>
    /\ fn = "none"
    /\ args \in [a : Values, b : Values, years : Years]
    /\ ret = Null
    /\ IrrIdle
    /\ session_state = EmptySession

Call_InsightsAgent_div ==
    /\ fn' = "InsightsAgent._div"
    /\ ret' = InsightsAgent_div(args.a, args.b)
    /\ UNCHANGED <<session_state, raw_data, args, IrrVars>>

Call_cf_d ==
    /\ fn' = "cf_irr_tab._d"
    /\ ret' = cf_d(args.a, args.b)
    /\ UNCHANGED <<session_state, raw_data, args, IrrVars>>

Call_fin_d ==
    /\ fn' = "financials_tab._d"
    /\ ret' = fin_d(args.a, args.b)
    /\ UNCHANGED <<session_state, raw_data, args, IrrVars>>

Call_InsightsAgent_cagr ==
    /\ fn' = "InsightsAgent._cagr"
    /\ ret' = InsightsAgent_cagr(args.a, args.b, args.years)
    /\ UNCHANGED <<session_state, raw_data, args, IrrVars>>

Call_cagr_local ==
    /\ fn' = "cf_irr_tab._cagr_local"
    /\ ret' = cagr_local(args.a, args.b, args.years)
    /\ UNCHANGED <<session_state, raw_data, args, IrrVars>>

NextArith ==
    \/ Call_InsightsAgent_div
    \/ Call_cf_d
    \/ Call_fin_d
    \/ Call_InsightsAgent_cagr
    \/ Call_cagr_local

SpecArith == InitArith /\ [][NextArith]_vars

----------------------------------------------------------------------------
(* C2, C3                                                                   *)

DivFns == {"InsightsAgent._div", "cf_irr_tab._d", "financials_tab._d"}
CagrFns == {"InsightsAgent._cagr", "cf_irr_tab._cagr_local"}

----------------------------------------------------------------------------
(* _irr_calc: Newton-Raphson on the net present value                      *)
(*                                                                         *)
(* A rate is kept on a fixed-point grid: the integer R stands for the      *)
(* float R / Unit, and X = R + Unit for 1 + r.  The model's floats are     *)
(* narrower than a double: a rate whose magnitude exceeds GridMax          *)
(* overflows to an infinity, as a double does beyond 1.8e308.  npv and     *)
(* dnpv are computed exactly as fractions of X; only r_new is rounded      *)
(* (towards zero) to the grid, so |r_new - r| < tol is `the step is less   *)
(* than one grid unit`.                                                    *)

\* Grid units per 1.0.
Unit == 10
\* Largest magnitude of a finite rate.
GridMax == 14
\* Longest cash-flow vector drawn as an input.
MaxLen == 2
\* Largest max_iter drawn for a direct call.
MaxIter == 3

\* max_iter=300, the default of _irr_calc.
DefaultMaxIter == 300

\* r = 0.10, the initial guess.
r0 == Unit \div 10

Rate(x) == [k |-> "num", n |-> x, d |-> Unit]

TruncDiv(x, y) == Sign(x) * Sign(y) * (Abs(x) \div Abs(y))

\* Sum over t of cf_t * X^(n-t) * Unit^t:  npv = NpvNum / X^n.
RECURSIVE NpvNum(_, _, _)
NpvNum(cfs, X, t) ==
    IF t > Len(cfs) THEN 0
    ELSE cfs[t].n * IntPow(X, Len(cfs) - t) * IntPow(Unit, t - 1)
         + NpvNum(cfs, X, t + 1)

\* Sum over t of -t * cf_t * X^(n-t) * Unit^t:  dnpv = Unit * DnpvNum / X^(n+1).
RECURSIVE DnpvNum(_, _, _)
DnpvNum(cfs, X, t) ==
    IF t > Len(cfs) THEN 0
    ELSE (-(t - 1)) * cfs[t].n * IntPow(X, Len(cfs) - t) * IntPow(Unit, t - 1)
         + DnpvNum(cfs, X, t + 1)

\* math.isfinite(x) and -1 < x < 10
InBand(x) == x.k = "num" /\ -Unit < x.n /\ x.n < 10 * Unit

\* `return x if (math.isfinite(x) and -1 < x < 10) else None`
Banded(x) == IF InBand(x) THEN x ELSE Null

Unbanded(x) == IF x.k = "num" THEN x ELSE Null

\* The loop body without its convergence test.
IrrPass_notest(cfs, rr) ==
    IF \E i \in 1 .. Len(cfs) : cfs[i].k \in {"null", "str"}
    THEN [do |-> "raise", r |-> rr]             \* None / float: TypeError
    ELSE IF rr.k = "nan" \/ \E i \in 1 .. Len(cfs) : cfs[i].k \in {"nan", "inf"}
    THEN [do |-> "cont", r |-> NaN]             \* every comparison with NaN is False
    ELSE IF rr.k = "inf"
    THEN [do |-> "brk", r |-> rr]               \* cf / inf = 0.0, so dnpv = 0
    ELSE LET X    == rr.n + Unit
             npvN == NpvNum(cfs, X, 1)
             dN   == DnpvNum(cfs, X, 1)
         IN  IF X = 0 THEN [do |-> "exc", r |-> rr]          \* ZeroDivisionError
             ELSE IF dN = 0 THEN [do |-> "brk", r |-> rr]    \* abs(dnpv) < 1e-12
             ELSE LET step == TruncDiv(X * npvN, dN)         \* npv / dnpv
                      new  == rr.n - step
                      rnew == IF Abs(new) > GridMax * Unit
                              THEN [k |-> "inf", n |-> Sign(new), d |-> 1]
                              ELSE Rate(new)
                  IN  [do |-> "cont", r |-> rnew]

\* One pass of the loop body from rate rr: what the pass does (exc: the
\* except clause returns None; raise: an exception leaves the function;
\* brk: `break`; conv: the convergence test returns; cont: `r = r_new`)
\* and the rate it leaves.
IrrPass(cfs, rr) ==
    IF \E i \in 1 .. Len(cfs) : cfs[i].k \in {"null", "str"}
    THEN [do |-> "raise", r |-> rr]             \* None / float: TypeError
    ELSE IF rr.k = "nan" \/ \E i \in 1 .. Len(cfs) : cfs[i].k \in {"nan", "inf"}
    THEN [do |-> "cont", r |-> NaN]             \* every comparison with NaN is False
    ELSE IF rr.k = "inf"
    THEN [do |-> "brk", r |-> rr]               \* cf / inf = 0.0, so dnpv = 0
    ELSE LET X    == rr.n + Unit
             npvN == NpvNum(cfs, X, 1)
             dN   == DnpvNum(cfs, X, 1)
         IN  IF X = 0 THEN [do |-> "exc", r |-> rr]          \* ZeroDivisionError
             ELSE IF dN = 0 THEN [do |-> "brk", r |-> rr]    \* abs(dnpv) < 1e-12
             ELSE LET step == TruncDiv(X * npvN, dN)         \* npv / dnpv
                      new  == rr.n - step
                      rnew == IF Abs(new) > GridMax * Unit
                              THEN [k |-> "inf", n |-> Sign(new), d |-> 1]
                              ELSE Rate(new)
                  IN  IF rnew.k = "num" /\ step = 0          \* abs(r_new - r) < tol
                      THEN [do |-> "conv", r |-> rnew]
                      ELSE [do |-> "cont", r |-> rnew]

IrrGuard_nosign(cfs) ==
    \/ Len(cfs) = 0
    \/ IsNone(cf_s(cfs[1]))

\* `not cashflows or _s(cashflows[0]) is None or cashflows[0] >= 0`
IrrGuard(cfs) ==
    \/ Len(cfs) = 0
    \/ IsNone(cf_s(cfs[1]))
    \/ cfs[1].n >= 0

\* _irr_calc, lines 56-58: the guard, then r = 0.10.
IrrEnter(cfs, mi) ==
    /\ cashflows' = cfs
    /\ max_iter' = mi
    /\ it' = 0
    /\ IF IrrGuard(cfs)
       THEN /\ pc' = "done" /\ path' = "guard" /\ ret' = Null /\ r' = Null
       ELSE /\ pc' = "loop" /\ path' = "none" /\ ret' = Null /\ r' = Rate(r0)

\* A direct call _irr_calc(cashflows, max_iter=...).
IrrCall ==
    /\ pc = "idle"
    /\ args.caller = "direct"
    /\ fn' = "_irr_calc"
    /\ IrrEnter(args.cfs, args.max_iter)
    /\ UNCHANGED <<session_state, raw_data, args>>

\* render_cf_irr_tab, the headline IRR:
\*   irr_val = None
\*   if price_now and price_now > 0 and fcf_cashflows:
\*       irr_val = _irr_calc([-price_now] + fcf_cashflows)
RenderIrr ==
    /\ pc = "idle"
    /\ args.caller = "render"
    /\ fn' = "render_cf_irr_tab"
    /\ IF Truthy(args.price) /\ args.price.n > 0 /\ Len(args.cfs) > 0
       THEN IrrEnter(<<Num(-args.price.n)>> \o args.cfs, DefaultMaxIter)
       ELSE /\ pc' = "done" /\ path' = "not called" /\ ret' = Null
            /\ UNCHANGED <<cashflows, max_iter, r, it>>
    /\ UNCHANGED <<session_state, raw_data, args>>

IrrIterate_nocount ==
    /\ pc = "loop"
    /\ LET p == IrrPass(cashflows, r)
       IN  /\ it' = it
           /\ r' = p.r
           /\ CASE p.do = "raise" -> pc' = "done" /\ path' = "raise" /\ ret' = Raise
                [] p.do = "exc"   -> pc' = "done" /\ path' = "except" /\ ret' = Null
                [] p.do = "brk"   -> pc' = "done" /\ path' = "break" /\ ret' = Banded(p.r)
                [] p.do = "conv"  -> pc' = "done" /\ path' = "converged" /\ ret' = Banded(p.r)
                [] p.do = "cont"  -> pc' = "loop" /\ path' = path /\ ret' = ret
    /\ UNCHANGED <<session_state, raw_data, fn, args, cashflows, max_iter>>

IrrIterate_noband ==
    /\ pc = "loop"
    /\ it < max_iter
    /\ LET p == IrrPass(cashflows, r)
       IN  /\ it' = it + 1
           /\ r' = p.r
           /\ CASE p.do = "raise" -> pc' = "done" /\ path' = "raise" /\ ret' = Raise
                [] p.do = "exc"   -> pc' = "done" /\ path' = "except" /\ ret' = Null
                [] p.do = "brk"   -> pc' = "done" /\ path' = "break" /\ ret' = Banded(p.r)
                [] p.do = "conv"  -> pc' = "done" /\ path' = "converged" /\ ret' = Unbanded(p.r)
                [] p.do = "cont"  -> pc' = "loop" /\ path' = path /\ ret' = ret
    /\ UNCHANGED <<session_state, raw_data, fn, args, cashflows, max_iter>>

\* One pass of `for _ in range(max_iter)`, lines 59-71; a `break` falls
\* through to the return of line 72.
IrrIterate ==
    /\ pc = "loop"
    /\ it < max_iter
    /\ LET p == IrrPass(cashflows, r)
       IN  /\ it' = it + 1
           /\ r' = p.r
           /\ CASE p.do = "raise" -> pc' = "done" /\ path' = "raise" /\ ret' = Raise
                [] p.do = "exc"   -> pc' = "done" /\ path' = "except" /\ ret' = Null
                [] p.do = "brk"   -> pc' = "done" /\ path' = "break" /\ ret' = Banded(p.r)
                [] p.do = "conv"  -> pc' = "done" /\ path' = "converged" /\ ret' = Banded(p.r)
                [] p.do = "cont"  -> pc' = "loop" /\ path' = path /\ ret' = ret
    /\ UNCHANGED <<session_state, raw_data, fn, args, cashflows, max_iter>>

\* The loop ran max_iter passes: line 72 returns the last rate.
IrrExhausted ==
    /\ pc = "loop"
    /\ it = max_iter
    /\ pc' = "done"
    /\ path' = "exhausted"
    /\ ret' = Banded(r)
    /\ UNCHANGED <<session_state, raw_data, fn, args, cashflows, max_iter, r, it>>

CfValues == {Null, NaN, Num(-100), Num(-10), Num(0), Num(50), Num(110), Num(120), Num(300)}

Vectors(S, maxlen) == UNION {[1 .. len -> S] : len \in 0 .. maxlen}

PriceValues == {Null, Num(-100), Num(0), Num(10), Num(100)}

InitIrr ==
    /\ raw_data = <<>>
    /\ fn = "none"
    /\ ret = Null
    /\ args \in [caller : {"direct"}, cfs : Vectors(CfValues, MaxLen),
                 max_iter : 1 .. MaxIter, price : {Null}]
            \cup [caller : {"render"}, cfs : Vectors(CfValues \ {Null, NaN}, MaxLen - 1),
                  max_iter : {DefaultMaxIter}, price : PriceValues]
    /\ IrrIdle
    /\ session_state = EmptySession

NextIrr ==
    \/ IrrCall
    \/ RenderIrr
    \/ IrrIterate
    \/ IrrExhausted

SpecIrr == InitIrr /\ [][NextIrr]_vars

\* A call that has started runs on: the interpreter executes the next
\* statement of a function that has not returned.
FairSpecIrr == SpecIrr /\ WF_vars(NextIrr)

----------------------------------------------------------------------------
(* C5 - C8                                                                  *)

\* C5: _irr_calc returns a rate only when its convergence test succeeded;
\* when the iteration bound is exhausted or the loop is abandoned on a
\* near-zero derivative the result is None.
C5_RateOnlyWhenConverged ==
    (pc = "done" /\ fn = "_irr_calc" /\ IsNum(ret)) => path = "converged"

\* C6: a vector that is empty, or whose first element is null or >= 0, makes
\* _irr_calc return None before any Newton-Raphson pass; and the headline
\* IRR of render_cf_irr_tab is None whenever the current price is null or
\* not strictly positive.
C6_GuardBeforeIterating ==
    /\ (pc # "idle" /\ path # "not called"
        /\ (Len(cashflows) = 0 \/ cashflows[1].k \in {"null", "nan"}
            \/ (IsNum(cashflows[1]) /\ cashflows[1].n >= 0)))
          => (pc = "done" /\ ret = Null /\ it = 0 /\ path = "guard")
    /\ (pc = "done" /\ fn = "render_cf_irr_tab"
        /\ (IsNone(args.price) \/ args.price.n <= 0))
          => (ret = Null /\ it = 0)

\* _irr_calc has rejected a non-empty vector whose first element is positive.
C6_Witness ==
    /\ pc = "done" /\ fn = "_irr_calc" /\ path = "guard"
    /\ Len(cashflows) = MaxLen /\ IsNum(cashflows[1]) /\ cashflows[1].n > 0

\* C7: _irr_calc terminates: it never makes more than max_iter passes, and
\* every call reaches its return.
C7_Terminates ==
    /\ [](it <= max_iter)
    /\ <>(pc = "done")

\* A call has returned after making all max_iter passes without converging.
C7_Witness ==
    /\ pc = "done" /\ path = "exhausted" /\ it = max_iter /\ it = MaxIter

\* C8: every value _irr_calc returns (so the headline IRR too) is None or a
\* finite rate r with -1 < r < 10.
C8_ResultInBand ==
    (pc = "done" /\ path # "raise") =>
        (ret = Null \/ (IsNum(ret) /\ -Unit < ret.n /\ ret.n < 10 * Unit /\ ret.d = Unit))

\* The convergence test succeeded on a rate outside the band, and the call
\* returned None.
C8_Witness ==
    /\ pc = "done" /\ path = "converged" /\ ret = Null /\ ~InBand(r)

----------------------------------------------------------------------------
(* render_cf_irr_tab: the quality checklist                                 *)

\* _check(val, threshold, lower_is_better): the pass flag of one rule, "true",
\* "false" or "null" (None).
check(val, threshold, lower_is_better) ==
    IF IsStr(val) THEN "null"                   \* isinstance(val, str)
    ELSE LET f == cf_s(val)
         IN  IF IsNone(f) THEN "null"
             ELSE IF lower_is_better
                  THEN (IF PyLt(f, threshold) THEN "true" ELSE "false")
                  ELSE (IF PyGe(f, threshold) THEN "true" ELSE "false")

\* The six rules of the checklist, in order: threshold and lower_is_better.
Rules == <<
    [name |-> "Revenue Growth (10yr CAGR)", threshold |-> Frac(7, 100),  lower |-> FALSE],
    [name |-> "EBITDA Growth (10yr CAGR)",  threshold |-> Frac(10, 100), lower |-> FALSE],
    [name |-> "FCF Growth (10yr CAGR)",     threshold |-> Frac(10, 100), lower |-> FALSE],
    [name |-> "Adj. FCF Margin (TTM)",      threshold |-> Frac(10, 100), lower |-> FALSE],
    [name |-> "Net Debt / EBITDA (TTM)",    threshold |-> Num(3),        lower |-> TRUE],
    [name |-> "IRR - 10yr FCF Model",       threshold |-> Frac(12, 100), lower |-> FALSE] >>

\* The pass flags of the checklist for the six values, in the order of Rules.
checklist(vals) ==
    [i \in 1 .. Len(Rules) |-> check(vals[i], Rules[i].threshold, Rules[i].lower)]

all_pass_evaluated(flags) == \A i \in 1 .. Len(flags) : flags[i] # "false"

\* all(p is True for _, _, p, _ in checklist)
all_pass(flags) == \A i \in 1 .. Len(flags) : flags[i] = "true"

\* any(p is False for _, _, p, _ in checklist)
any_fail(flags) == \E i \in 1 .. Len(flags) : flags[i] = "false"

\* The PASS / FAIL badge.
badge(flags) ==
    IF all_pass(flags) THEN "PASS"
    ELSE IF any_fail(flags) THEN "FAIL"
    ELSE "INCOMPLETE"

\* What a checklist value may be: None, "N/M", or a number below, at or
\* above the rule's threshold.
RuleInputs(i) ==
    LET t == Rules[i].threshold
    IN  {Null, NM, t, Frac(t.n - t.d, t.d), Frac(t.n + t.d, t.d)}

InitChecklist ==
    /\ raw_data = <<>>
    /\ fn = "none"
    /\ args \in {<<v1, v2, v3, v4, v5, v6>> :
                    v1 \in RuleInputs(1), v2 \in RuleInputs(2), v3 \in RuleInputs(3),
                    v4 \in RuleInputs(4), v5 \in RuleInputs(5), v6 \in RuleInputs(6)}
    /\ ret = Null
    /\ IrrIdle
    /\ session_state = EmptySession

\* The checklist block of render_cf_irr_tab, lines 817-847 and 954-963.
RenderChecklist ==
    /\ fn' = "checklist"
    /\ ret' = [flags |-> checklist(args), verdict |-> badge(checklist(args))]
    /\ UNCHANGED <<session_state, raw_data, args, IrrVars>>

NextChecklist == RenderChecklist

SpecChecklist == InitChecklist /\ [][NextChecklist]_vars

----------------------------------------------------------------------------
(* C9                                                                       *)

\* C9 as stated: the verdict is PASS iff every rule whose flag is non-null
\* evaluates true, FAIL iff at least one rule evaluates false, INCOMPLETE in
\* every other case.
C9_AsStated ==
    fn = "checklist" =>
        /\ (ret.verdict = "PASS") <=>
              (\A i \in 1 .. Len(Rules) : ret.flags[i] # "null" => ret.flags[i] = "true")
        /\ (ret.verdict = "FAIL") <=> (\E i \in 1 .. Len(Rules) : ret.flags[i] = "false")

\* C9 amended: the verdict is PASS iff all six flags are true (so none is
\* null), FAIL iff at least one flag is false, and INCOMPLETE in every other
\* case: no flag is false and at least one is null.
C9_Verdict ==
    fn = "checklist" =>
        /\ (ret.verdict = "PASS") <=> (\A i \in 1 .. Len(Rules) : ret.flags[i] = "true")
        /\ (ret.verdict = "FAIL") <=> (\E i \in 1 .. Len(Rules) : ret.flags[i] = "false")
        /\ (ret.verdict = "INCOMPLETE") <=>
              /\ \A i \in 1 .. Len(Rules) : ret.flags[i] # "false"
              /\ \E i \in 1 .. Len(Rules) : ret.flags[i] = "null"

\* Five rules pass and one is indeterminate: the verdict is INCOMPLETE.
C9_Witness ==
    /\ fn = "checklist"
    /\ ret.verdict = "INCOMPLETE"
    /\ Cardinality({i \in 1 .. Len(Rules) : ret.flags[i] = "true"}) = 5

----------------------------------------------------------------------------
(* The raw dataset                                                          *)

\* Longest quarterly list drawn as an input.
MaxQuarters == 5
\* Longest annual list drawn as an input.
MaxAnnual == 2

\* source[:10] and `while len(dates) < 10` of get_column_headers, found[:10]
\* of build_table.
NumPeriods == 10
\* q_list[:4] of the TTM helpers.
TtmQuarters == 4

LabelKeys == {"fiscalYear", "calendarYear", "date", "period"}
ISKeys == {"revenue", "grossProfit", "netIncome", "ebitda", "interestExpense",
           "weightedAverageShsOut", "weightedAverageShsOutDil", "costOfRevenue",
           "stockBasedCompensation", "operatingIncome", "incomeTaxExpense",
           "incomeBeforeTax"}
BSKeys == {"totalAssets", "longTermDebt", "totalCurrentAssets",
           "totalCurrentLiabilities", "cashAndCashEquivalents", "totalDebt",
           "totalStockholdersEquity", "netReceivables", "inventory"}
CFKeys == {"operatingCashFlow", "freeCashFlow", "commonDividendsPaid",
           "commonStockRepurchased"}
RTKeys == {"interestCoverageTTM"}
AllKeys == LabelKeys \cup ISKeys \cup BSKeys \cup CFKeys \cup RTKeys

\* The strings "<y>-MM-DD" of a date field and "Q<q>" / "FY" (q = 5) of a
\* period field.
DateStr(y)   == [k |-> "date",   n |-> y, d |-> 1]
PeriodStr(q) == [k |-> "period", n |-> q, d |-> 1]

\* A period record that is a dictionary: f[key] is the value under key, Absent
\* when the dictionary has no such key.
Rec(a) ==
    [dict |-> TRUE, f |-> [key \in AllKeys |-> IF key \in DOMAIN a THEN a[key] ELSE Absent]]

\* A period record that is not a dictionary (a JSON null).
NotDict == [dict |-> FALSE, f |-> [key \in AllKeys |-> Absent]]

\* d.get(key) and d.get(key, 0)
Get(rec, key)  == IF rec.f[key] = Absent THEN Null ELSE rec.f[key]
Get0(rec, key) == IF rec.f[key] = Absent THEN Num(0) ELSE rec.f[key]

\* lst[:n]
Take(lst, n) == SubSeq(lst, 1, IF Len(lst) < n THEN Len(lst) ELSE n)

\* a + b, -a, abs(a), a - b on Python values: TypeError unless both are
\* numbers.
PyAdd(a, b) ==
    IF ~IsFloat(a) \/ ~IsFloat(b) THEN Raise
    ELSE IF a.k = "nan" \/ b.k = "nan" THEN NaN
    ELSE IF a.k = "inf" /\ b.k = "inf" THEN (IF a.n = b.n THEN a ELSE NaN)
    ELSE IF a.k = "inf" THEN a
    ELSE IF b.k = "inf" THEN b
    ELSE LET g == GCD(a.d, b.d)
         IN  Frac(a.n * (b.d \div g) + b.n * (a.d \div g), (a.d \div g) * b.d)

PyNeg(a) == IF a.k \in {"num", "inf"} THEN [a EXCEPT !.n = -a.n] ELSE a

PyAbs(a) == IF a.k \in {"num", "inf"} THEN [a EXCEPT !.n = Abs(a.n)] ELSE a

PySub(a, b) == PyAdd(a, PyNeg(b))

\* a or b
PyOr(a, b) == IF Truthy(a) THEN a ELSE b

\* sum(s), from the left, starting at 0.
RECURSIVE PySum(_)
PySum(s) ==
    IF s = <<>> THEN Num(0)
    ELSE PyAdd(PySum(SubSeq(s, 1, Len(s) - 1)), s[Len(s)])

----------------------------------------------------------------------------
(* DataNormalizer (agents/core_agent.py)                                    *)

\* DataNormalizer._get_ttm_value: q.get on a record that is not a dictionary
\* is an AttributeError, a string in the sum a TypeError.
DataNormalizer_get_ttm_value(q_list, key) ==
    IF Len(q_list) = 0 THEN Num(0)
    ELSE LET first == Take(q_list, TtmQuarters)
         IN  IF \E i \in 1 .. Len(first) : ~first[i].dict THEN Raise
             ELSE PySum([i \in 1 .. Len(first) |-> PyOr(Get0(first[i], key), Num(0))])

\* A column label: the text "<y>" or "<y> <p>" (kind "year"), "Y<y>", "Q<y>",
\* "N/A-<y>", "Item" or "TTM".
Label(t, y, p) == [t |-> t, y |-> y, p |-> p]

\* str(d.get('fiscalYear') or '') or str(d.get('calendarYear') or '')
\*   or str(d.get('date') or '')[:4]: the year as a number, 0 for ''.
YearOf(rec) ==
    LET v == PyOr(Get(rec, "fiscalYear"), PyOr(Get(rec, "calendarYear"), Get(rec, "date")))
    IN  IF Truthy(v) THEN v.n ELSE 0

\* str(d.get('period') or ''): the quarter 1..4, 5 for "FY", 0 for ''.
PeriodOf(rec) ==
    LET v == Get(rec, "period") IN IF Truthy(v) THEN v.n ELSE 0

\* The loop of get_column_headers over source[:10].
RECURSIVE HeaderDates(_, _, _)
HeaderDates(source, p_type, dates) ==
    IF source = <<>> THEN dates
    ELSE LET rec    == Head(source)
             year   == YearOf(rec)
             period == PeriodOf(rec)
             n      == Len(dates) + 1
             label  == IF p_type = "annual"
                       THEN (IF year # 0 THEN Label("year", year, 0) ELSE Label("Y", n, 0))
                       ELSE IF year = 0 /\ period = 0 THEN Label("Q", n, 0)
                       ELSE IF year = 0 /\ period \in 1 .. 4 THEN Label("Q", period, 0)
                       ELSE Label("year", year, period)
         IN  IF ~rec.dict THEN HeaderDates(Tail(source), p_type, dates)
             ELSE HeaderDates(Tail(source), p_type, Append(dates, label))

\* `while len(dates) < 10: dates.append(f"N/A-{len(dates) + 1}")`
RECURSIVE PadDates(_)
PadDates(dates) ==
    IF Len(dates) >= NumPeriods THEN dates
    ELSE PadDates(Append(dates, Label("N/A", Len(dates) + 1, 0)))

\* DataNormalizer.get_column_headers
get_column_headers(data, p_type) ==
    LET source == IF p_type = "annual" THEN data.is_l ELSE data.q_is
    IN  <<Label("Item", 0, 0), Label("TTM", 0, 0)>>
            \o PadDates(HeaderDates(Take(source, NumPeriods), p_type, <<>>))

\* One row of build_table: tag is the statement the key was found in ("none"
\* when it was found nowhere, "raise" when the row ended in an exception), TTM
\* the TTM cell (Absent when the row has none), cols the assignments
\* row[headers[i+2]] = value in the order they are made.
build_row(data, headers, key, p_type) ==
    LET is_src == IF p_type = "annual" THEN data.is_l ELSE data.q_is
        bs_src == IF p_type = "annual" THEN data.bs_l ELSE data.q_bs
        cf_src == IF p_type = "annual" THEN data.cf_l ELSE data.q_cf
        \* `if is_src and key in is_src[0]: ... elif ...`; `key in None` is a
        \* TypeError.
        tag == IF Len(is_src) > 0 /\ ~is_src[1].dict THEN "raise"
               ELSE IF Len(is_src) > 0 /\ is_src[1].f[key] # Absent THEN "is"
               ELSE IF Len(bs_src) > 0 /\ ~bs_src[1].dict THEN "raise"
               ELSE IF Len(bs_src) > 0 /\ bs_src[1].f[key] # Absent THEN "bs"
               ELSE IF Len(cf_src) > 0 /\ ~cf_src[1].dict THEN "raise"
               ELSE IF Len(cf_src) > 0 /\ cf_src[1].f[key] # Absent THEN "cf"
               ELSE "none"
        found == CASE tag = "is" -> is_src [] tag = "bs" -> bs_src
                   [] tag = "cf" -> cf_src [] OTHER -> <<>>
        \* `found in [bs_src, self.bs_l, self.q_bs]` compares the lists by value
        as_bs == found = bs_src \/ found = data.bs_l \/ found = data.q_bs
        as_is == found = is_src \/ found = data.is_l
        ttm == IF as_bs
               THEN (IF Len(data.q_bs) > 0
                     THEN (IF data.q_bs[1].dict THEN Get0(data.q_bs[1], key) ELSE Raise)
                     ELSE Get0(found[1], key))
               ELSE DataNormalizer_get_ttm_value(IF as_is THEN data.q_is ELSE data.q_cf, key)
        hist == Take(found, NumPeriods)
    IN  IF tag = "raise" THEN [key |-> key, tag |-> "raise", TTM |-> Raise, cols |-> <<>>]
        ELSE IF tag = "none" THEN [key |-> key, tag |-> "none", TTM |-> Absent, cols |-> <<>>]
        ELSE IF ttm.k = "raise" THEN [key |-> key, tag |-> "raise", TTM |-> Raise, cols |-> <<>>]
        ELSE [key |-> key, tag |-> tag, TTM |-> ttm,
              cols |-> [i \in 1 .. Len(hist) |->
                          [h |-> headers[i + 2],
                           v |-> IF hist[i].dict THEN Get0(hist[i], key) ELSE Num(0)]]]

\* DataNormalizer.build_table(mapping, p_type): the rows, or Raise.
build_table(data, mapping, p_type) ==
    LET headers == get_column_headers(data, p_type)
        rows == [i \in 1 .. Len(mapping) |-> build_row(data, headers, mapping[i], p_type)]
    IN  IF \E i \in 1 .. Len(rows) : rows[i].tag = "raise" THEN Raise
        ELSE [k |-> "rows", rows |-> rows]

----------------------------------------------------------------------------
(* InsightsAgent (agents/insights_agent.py)                                 *)

\* InsightsAgent._ttm_flow
InsightsAgent_ttm_flow(q_list, key) ==
    IF Len(q_list) = 0 THEN Null
    ELSE LET first == Take(q_list, TtmQuarters)
         IN  IF \E i \in 1 .. Len(first) : ~first[i].dict THEN Raise
             ELSE LET vals == [i \in 1 .. Len(first) |-> InsightsAgent_safe(Get(first[i], key))]
                  IN  IF \A i \in 1 .. Len(vals) : IsNone(vals[i]) THEN Null
                      ELSE PySum([i \in 1 .. Len(vals) |-> PyOr(vals[i], Num(0))])

\* InsightsAgent._ttm_bs
InsightsAgent_ttm_bs(data, key) ==
    IF Len(data.q_bs) = 0 THEN Null
    ELSE IF ~data.q_bs[1].dict THEN Raise
    ELSE InsightsAgent_safe(Get(data.q_bs[1], key))

\* InsightsAgent._ann; idx counts from 0.
InsightsAgent_ann(src_list, key, idx) ==
    IF Len(src_list) = 0 \/ idx >= Len(src_list) THEN Null
    ELSE IF ~src_list[idx + 1].dict THEN Null
    ELSE InsightsAgent_safe(Get(src_list[idx + 1], key))

NotNone(v) == ~IsNone(v)

\* InsightsAgent._avg
InsightsAgent_avg(values) ==
    LET clean == SelectSeq(values, NotNone)
    IN  IF clean = <<>> THEN Null ELSE PyDiv(PySum(clean), Num(Len(clean)))

IsDictRec(rec) == rec.dict

\* InsightsAgent._ratio_avg
InsightsAgent_ratio_avg(data, key, n) ==
    LET recs == SelectSeq(Take(data.rt_l, n), IsDictRec)
    IN  InsightsAgent_avg([i \in 1 .. Len(recs) |-> InsightsAgent_safe(Get(recs[i], key))])

\* 1 for a test that passed, 0 otherwise.
B(cond) == IF cond THEN 1 ELSE 0

InsightsAgent_piotroski_score_twice(t) ==
    B(t[1]) + B(t[2]) + B(t[3]) + 2 * B(t[4]) + B(t[5]) + B(t[6]) + B(t[7]) + B(t[8]) + B(t[9])

\* The nine `score += 1` of _piotroski.
InsightsAgent_piotroski_score(t) ==
    B(t[1]) + B(t[2]) + B(t[3]) + B(t[4]) + B(t[5]) + B(t[6]) + B(t[7]) + B(t[8]) + B(t[9])

\* The nine tests of _piotroski, in the order of the code.
InsightsAgent_piotroski_tests(data) ==
    LET ni   == InsightsAgent_ann(data.is_l, "netIncome", 0)
        cfo  == InsightsAgent_ann(data.cf_l, "operatingCashFlow", 0)
        roa0 == InsightsAgent_div(ni, InsightsAgent_ann(data.bs_l, "totalAssets", 0))
        roa1 == InsightsAgent_div(InsightsAgent_ann(data.is_l, "netIncome", 1),
                                  InsightsAgent_ann(data.bs_l, "totalAssets", 1))
        ltd0 == InsightsAgent_ann(data.bs_l, "longTermDebt", 0)
        ltd1 == InsightsAgent_ann(data.bs_l, "longTermDebt", 1)
        ca0  == InsightsAgent_ann(data.bs_l, "totalCurrentAssets", 0)
        cl0  == InsightsAgent_ann(data.bs_l, "totalCurrentLiabilities", 0)
        ca1  == InsightsAgent_ann(data.bs_l, "totalCurrentAssets", 1)
        cl1  == InsightsAgent_ann(data.bs_l, "totalCurrentLiabilities", 1)
        cr0  == InsightsAgent_div(ca0, cl0)
        cr1  == InsightsAgent_div(ca1, cl1)
        sh0  == InsightsAgent_ann(data.is_l, "weightedAverageShsOut", 0)
        sh1  == InsightsAgent_ann(data.is_l, "weightedAverageShsOut", 1)
        gm0  == InsightsAgent_div(InsightsAgent_ann(data.is_l, "grossProfit", 0),
                                  InsightsAgent_ann(data.is_l, "revenue", 0))
        gm1  == InsightsAgent_div(InsightsAgent_ann(data.is_l, "grossProfit", 1),
                                  InsightsAgent_ann(data.is_l, "revenue", 1))
        at0  == InsightsAgent_div(InsightsAgent_ann(data.is_l, "revenue", 0),
                                  InsightsAgent_ann(data.bs_l, "totalAssets", 0))
        at1  == InsightsAgent_div(InsightsAgent_ann(data.is_l, "revenue", 1),
                                  InsightsAgent_ann(data.bs_l, "totalAssets", 1))
    IN  <<
            NotNone(roa0) /\ PyGt(roa0, Num(0)),
            NotNone(cfo) /\ PyGt(cfo, Num(0)),
            NotNone(roa0) /\ NotNone(roa1) /\ PyGt(roa0, roa1),
            NotNone(ni) /\ NotNone(cfo) /\ PyGt(cfo, ni),
            NotNone(ltd0) /\ NotNone(ltd1) /\ PyLt(ltd0, ltd1),
            NotNone(cr0) /\ NotNone(cr1) /\ PyGt(cr0, cr1),
            NotNone(sh0) /\ NotNone(sh1) /\ PyLe(sh0, sh1),
            NotNone(gm0) /\ NotNone(gm1) /\ PyGt(gm0, gm1),
            NotNone(at0) /\ NotNone(at1) /\ PyGt(at0, at1) >>

\* InsightsAgent._piotroski
InsightsAgent_piotroski(data) ==
    IF Len(data.is_l) < 2 \/ Len(data.bs_l) < 2 \/ Len(data.cf_l) < 2 THEN Null
    ELSE Num(InsightsAgent_piotroski_score(InsightsAgent_piotroski_tests(data)))

\* ann_ratio(fn, n) of get_insights_liquidity, for fn(i) = _div(_ann(num_src,
\* num_key, i), _ann(den_src, den_key, i)).
ann_ratio(num_src, num_key, den_src, den_key, n) ==
    InsightsAgent_avg([j \in 1 .. n |->
        InsightsAgent_div(InsightsAgent_ann(num_src, num_key, j - 1),
                          InsightsAgent_ann(den_src, den_key, j - 1))])

LiquidityRow(name, ttm, avg5, avg10) ==
    [name |-> name, TTM |-> ttm, avg5 |-> avg5, avg10 |-> avg10]

\* InsightsAgent.get_insights_liquidity: the six rows, or Raise.
get_insights_liquidity(data) ==
    LET ca   == InsightsAgent_ttm_bs(data, "totalCurrentAssets")
        cl   == InsightsAgent_ttm_bs(data, "totalCurrentLiabilities")
        cash == InsightsAgent_ttm_bs(data, "cashAndCashEquivalents")
        debt == InsightsAgent_ttm_bs(data, "totalDebt")
        ebitda_ttm == InsightsAgent_ttm_flow(data.q_is, "ebitda")
        int_exp    == InsightsAgent_ttm_flow(data.q_is, "interestExpense")
        net_debt   == IF NotNone(debt) /\ NotNone(cash) THEN PySub(debt, cash) ELSE Null
        cr    == InsightsAgent_div(ca, cl)
        de    == InsightsAgent_div(debt, InsightsAgent_ttm_bs(data, "totalStockholdersEquity"))
        d_eb  == InsightsAgent_div(debt, ebitda_ttm)
        nd_eb == InsightsAgent_div(net_debt, ebitda_ttm)
        int_cov == InsightsAgent_div(ebitda_ttm, IF Truthy(int_exp) THEN PyAbs(int_exp) ELSE Null)
        c2d   == InsightsAgent_div(cash, debt)
        cr_ann(n)   == ann_ratio(data.bs_l, "totalCurrentAssets", data.bs_l, "totalCurrentLiabilities", n)
        de_ann(n)   == ann_ratio(data.bs_l, "totalDebt", data.bs_l, "totalStockholdersEquity", n)
        d_eb_ann(n) == ann_ratio(data.bs_l, "totalDebt", data.is_l, "ebitda", n)
        c2d_ann(n)  == ann_ratio(data.bs_l, "cashAndCashEquivalents", data.bs_l, "totalDebt", n)
    IN  IF ca.k = "raise" \/ ebitda_ttm.k = "raise" THEN Raise
        ELSE [k |-> "rows", rows |-> <<
            LiquidityRow("Current Ratio", cr, cr_ann(5), cr_ann(10)),
            LiquidityRow("D/E", de, de_ann(5), de_ann(10)),
            LiquidityRow("D/EBITDA", d_eb, d_eb_ann(5), d_eb_ann(10)),
            LiquidityRow("Net D/EBITDA", nd_eb, Null, Null),
            LiquidityRow("Interest Coverage", int_cov,
                         InsightsAgent_ratio_avg(data, "interestCoverageTTM", 5),
                         InsightsAgent_ratio_avg(data, "interestCoverageTTM", 10)),
            LiquidityRow("Cash to Debt", c2d, c2d_ann(5), c2d_ann(10)) >>]

----------------------------------------------------------------------------
(* FinancialExtras (financials_tab.py)                                      *)

\* FinancialExtras._g; i counts from 0.
FinancialExtras_g(src, key, i) ==
    IF Len(src) = 0 \/ i >= Len(src) THEN Null
    ELSE IF ~src[i + 1].dict THEN Null
    ELSE fin_safe(Get(src[i + 1], key))

\* The nine `score += 1` of _piotroski_at.
FinancialExtras_piotroski_score(t) ==
    B(t[1]) + B(t[2]) + B(t[3]) + B(t[4]) + B(t[5]) + B(t[6]) + B(t[7]) + B(t[8]) + B(t[9])

\* The nine tests of _piotroski_at(i), in the order of the code.
FinancialExtras_piotroski_tests(data, i) ==
    LET ni   == FinancialExtras_g(data.is_l, "netIncome", i)
        cfo  == FinancialExtras_g(data.cf_l, "operatingCashFlow", i)
        ta0  == FinancialExtras_g(data.bs_l, "totalAssets", i)
        ta1  == FinancialExtras_g(data.bs_l, "totalAssets", i + 1)
        ni1  == FinancialExtras_g(data.is_l, "netIncome", i + 1)
        roa0 == fin_d(ni, ta0)
        roa1 == fin_d(ni1, ta1)
        ltd0 == FinancialExtras_g(data.bs_l, "longTermDebt", i)
        ltd1 == FinancialExtras_g(data.bs_l, "longTermDebt", i + 1)
        ca0  == FinancialExtras_g(data.bs_l, "totalCurrentAssets", i)
        cl0  == FinancialExtras_g(data.bs_l, "totalCurrentLiabilities", i)
        ca1  == FinancialExtras_g(data.bs_l, "totalCurrentAssets", i + 1)
        cl1  == FinancialExtras_g(data.bs_l, "totalCurrentLiabilities", i + 1)
        cr0  == fin_d(ca0, cl0)
        cr1  == fin_d(ca1, cl1)
        sh0  == PyOr(FinancialExtras_g(data.is_l, "weightedAverageShsOutDil", i),
                     FinancialExtras_g(data.is_l, "weightedAverageShsOut", i))
        sh1  == PyOr(FinancialExtras_g(data.is_l, "weightedAverageShsOutDil", i + 1),
                     FinancialExtras_g(data.is_l, "weightedAverageShsOut", i + 1))
        gm0  == fin_d(FinancialExtras_g(data.is_l, "grossProfit", i),
                      FinancialExtras_g(data.is_l, "revenue", i))
        gm1  == fin_d(FinancialExtras_g(data.is_l, "grossProfit", i + 1),
                      FinancialExtras_g(data.is_l, "revenue", i + 1))
        at0  == fin_d(FinancialExtras_g(data.is_l, "revenue", i), ta0)
        at1  == fin_d(FinancialExtras_g(data.is_l, "revenue", i + 1), ta1)
    IN  <<
            NotNone(roa0) /\ PyGt(roa0, Num(0)),
            NotNone(cfo) /\ PyGt(cfo, Num(0)),
            NotNone(roa0) /\ NotNone(roa1) /\ PyGt(roa0, roa1),
            NotNone(ni) /\ NotNone(cfo) /\ PyGt(cfo, ni),
            NotNone(ltd0) /\ NotNone(ltd1) /\ PyLt(ltd0, ltd1),
            NotNone(cr0) /\ NotNone(cr1) /\ PyGt(cr0, cr1),
            NotNone(sh0) /\ NotNone(sh1) /\ PyLe(sh0, sh1),
            NotNone(gm0) /\ NotNone(gm1) /\ PyGt(gm0, gm1),
            NotNone(at0) /\ NotNone(at1) /\ PyGt(at0, at1) >>

\* FinancialExtras._piotroski_at(i)
FinancialExtras_piotroski_at(data, i) ==
    IF i + 1 >= Len(data.is_l) \/ i + 1 >= Len(data.bs_l) \/ i + 1 >= Len(data.cf_l) THEN Null
    ELSE Num(FinancialExtras_piotroski_score(FinancialExtras_piotroski_tests(data, i)))

----------------------------------------------------------------------------
(* Datasets drawn as inputs                                                 *)

Statements == {"is", "bs", "cf", "rt"}
AnnualLists == {"is_l", "bs_l", "cf_l", "rt_l"}
QuarterlyLists == {"q_is", "q_bs", "q_cf"}

KeysOf(s) ==
    CASE s = "is" -> ISKeys [] s = "bs" -> BSKeys [] s = "cf" -> CFKeys [] s = "rt" -> RTKeys

StatementOf(lst) ==
    CASE lst \in {"is_l", "q_is"} -> "is" [] lst \in {"bs_l", "q_bs"} -> "bs"
      [] lst \in {"cf_l", "q_cf"} -> "cf" [] lst = "rt_l" -> "rt"

\* The i-th most recent annual / quarterly record with the fields a.
ARec(i, a) == Rec(("fiscalYear" :> Num(2025 - i)) @@ ("period" :> PeriodStr(5)) @@ a)
QRec(i, a) ==
    Rec(("fiscalYear" :> Num(2025 - ((i - 1) \div 4)))
        @@ ("period" :> PeriodStr(4 - ((i - 1) % 4))) @@ a)

\* The figures of an unremarkable period.
BaseValue ==
    ("revenue" :> Num(2)) @@ ("grossProfit" :> Num(2)) @@ ("netIncome" :> Num(1))
    @@ ("ebitda" :> Num(2)) @@ ("interestExpense" :> Num(1))
    @@ ("weightedAverageShsOut" :> Num(2)) @@ ("weightedAverageShsOutDil" :> Absent)
    @@ ("totalAssets" :> Num(3)) @@ ("longTermDebt" :> Num(2))
    @@ ("totalCurrentAssets" :> Num(2)) @@ ("totalCurrentLiabilities" :> Num(2))
    @@ ("cashAndCashEquivalents" :> Num(1)) @@ ("totalDebt" :> Num(2))
    @@ ("totalStockholdersEquity" :> Num(2)) @@ ("operatingCashFlow" :> Num(2))
    @@ ("interestCoverageTTM" :> Num(2))
    @@ ("costOfRevenue" :> Num(1)) @@ ("stockBasedCompensation" :> Num(1))
    @@ ("netReceivables" :> Num(1)) @@ ("inventory" :> Num(1))
    @@ ("freeCashFlow" :> Num(2)) @@ ("commonDividendsPaid" :> Num(-1))
    @@ ("commonStockRepurchased" :> Num(-1))
    @@ ("operatingIncome" :> Num(2)) @@ ("incomeTaxExpense" :> Num(1))
    @@ ("incomeBeforeTax" :> Num(4))

\* The fields of statement s, taken from the assignment c.
Fields(s, c) == [key \in KeysOf(s) |-> c[key]]

BaseList(lst) ==
    IF lst \in AnnualLists
    THEN [i \in 1 .. 2 |-> ARec(i, Fields(StatementOf(lst), BaseValue))]
    ELSE [i \in 1 .. 2 |-> QRec(i, Fields(StatementOf(lst), BaseValue))]

DataSet(is_l, bs_l, cf_l, q_is, q_bs, q_cf, rt_l) ==
    [is_l |-> is_l, bs_l |-> bs_l, cf_l |-> cf_l,
     q_is |-> q_is, q_bs |-> q_bs, q_cf |-> q_cf, rt_l |-> rt_l]

BaseDataSet == [lst \in AnnualLists \cup QuarterlyLists |-> BaseList(lst)]

\* --- datasets for the TTM rules: the quarterly list of one statement holds
\* 0 .. MaxQuarters records whose line item is absent, null or a number; the
\* annual lists hold na records.
TtmValues == {Absent, Null, Num(1), Num(2)}

MainKey(s) ==
    CASE s = "is" -> "revenue" [] s = "bs" -> "totalAssets" [] s = "cf" -> "operatingCashFlow"

TtmQuarterly(s, t, q) ==
    IF s = t
    THEN [i \in 1 .. Len(q) |-> QRec(i, [Fields(t, BaseValue) EXCEPT ![MainKey(t)] = q[i]])]
    ELSE <<QRec(1, Fields(t, BaseValue))>>

TtmDataSet(s, q, na) ==
    DataSet([i \in 1 .. na |-> ARec(i, Fields("is", BaseValue))],
            [i \in 1 .. na |-> ARec(i, Fields("bs", BaseValue))],
            [i \in 1 .. na |-> ARec(i, Fields("cf", BaseValue))],
            TtmQuarterly(s, "is", q), TtmQuarterly(s, "bs", q), TtmQuarterly(s, "cf", q),
            <<>>)

TtmFamily ==
    {TtmDataSet(s, q, na) : s \in {"is", "bs", "cf"}, q \in Vectors(TtmValues, MaxQuarters),
                            na \in 0 .. 1}

\* --- malformed datasets: up to two lists of the base dataset are replaced by
\* an empty list, a list with a record that is not a dictionary, or a list
\* whose first record has its fields all null, non-numeric, NaN or absent.
Malformations == {"empty", "nd1", "nd2", "null", "text", "nan", "nokeys"}

MalRec(lst, a) == IF lst \in AnnualLists THEN ARec(1, a) ELSE QRec(1, a)

MalList(lst, o) ==
    LET b == BaseList(lst)
        s == StatementOf(lst)
    IN  CASE o = "empty"  -> <<>>
          [] o = "nd1"    -> <<NotDict, b[2]>>
          [] o = "nd2"    -> <<b[1], NotDict>>
          [] o = "null"   -> <<MalRec(lst, [key \in KeysOf(s) |-> Null]), b[2]>>
          [] o = "text"   -> <<MalRec(lst, [key \in KeysOf(s) |-> Text]), b[2]>>
          [] o = "nan"    -> <<MalRec(lst, [key \in KeysOf(s) |-> NaN]), b[2]>>
          [] o = "nokeys" -> <<Rec(<<>>), b[2]>>

MalformedFamily ==
    {[[BaseDataSet EXCEPT ![l1] = MalList(l1, o1)] EXCEPT ![l2] = MalList(l2, o2)] :
        l1 \in AnnualLists \cup QuarterlyLists, o1 \in Malformations,
        l2 \in AnnualLists \cup QuarterlyLists, o2 \in Malformations}
    \cup {BaseDataSet}

\* --- datasets for the Piotroski score.
PiotroskiKeys == {"netIncome", "revenue", "grossProfit", "weightedAverageShsOut",
                  "totalAssets", "longTermDebt", "totalCurrentAssets",
                  "totalCurrentLiabilities", "operatingCashFlow"}

\* What a field of the most recent period holds in the full product of the
\* nine inputs, and what one field at a time holds in addition.
PiotroskiValues == {Null, Num(1), Num(3)}
ExoticValues == {Absent, Num(0), Num(-1), NaN, Text, PosInf, NegInf}

\* The most recent period that passes all nine tests against the base period.
BestValue ==
    ("netIncome" :> Num(1)) @@ ("totalAssets" :> Num(1)) @@ ("operatingCashFlow" :> Num(3))
    @@ ("longTermDebt" :> Num(1)) @@ ("totalCurrentAssets" :> Num(3))
    @@ ("totalCurrentLiabilities" :> Num(1)) @@ ("weightedAverageShsOut" :> Num(1))
    @@ ("grossProfit" :> Num(3)) @@ ("revenue" :> Num(1)) @@ BaseValue

\* The annual list of statement s: n records, the most recent with the figures
\* c, those in nd replaced by a record that is not a dictionary.
PiotroskiList(s, c, n, nd) ==
    [i \in 1 .. n |-> IF <<s, i>> \in nd THEN NotDict
                      ELSE IF i = 1 THEN ARec(1, Fields(s, c))
                      ELSE ARec(i, Fields(s, BaseValue))]

PiotroskiDataSet(c, n_is, n_bs, n_cf, nd) ==
    DataSet(PiotroskiList("is", c, n_is, nd), PiotroskiList("bs", c, n_bs, nd),
            PiotroskiList("cf", c, n_cf, nd), <<>>, <<>>, <<>>, <<>>)

PiotroskiFamily ==
    {PiotroskiDataSet(c @@ BaseValue, 2, 2, 2, {}) : c \in [PiotroskiKeys -> PiotroskiValues]}
    \cup {PiotroskiDataSet([BestValue EXCEPT ![key] = v], 2, 2, 2, {}) :
            key \in PiotroskiKeys \cup {"weightedAverageShsOutDil"},
            v \in ExoticValues \cup PiotroskiValues}
    \cup {PiotroskiDataSet(BestValue, n_is, n_bs, n_cf, {}) :
            n_is \in 0 .. MaxAnnual, n_bs \in 0 .. MaxAnnual, n_cf \in 0 .. MaxAnnual}
    \cup {PiotroskiDataSet(BestValue, MaxAnnual, MaxAnnual, MaxAnnual, {<<s, i>>}) :
            s \in {"is", "bs", "cf"}, i \in 1 .. MaxAnnual}

----------------------------------------------------------------------------
(* Specifications of the data layer: the dataset is drawn in the initial    *)
(* state and each action is one call of a method on it.                     *)

InitData(family) ==
    /\ raw_data \in family
    /\ fn = "none"
    /\ args = [key |-> "none"]
    /\ ret = Null
    /\ IrrIdle
    /\ session_state = EmptySession

PTypes == {"annual", "quarterly"}

\* The (label, key) mappings passed to build_table, as the lists of their keys.
Mappings == {<<"revenue">>, <<"totalAssets">>, <<"operatingCashFlow">>,
             <<"revenue", "totalAssets">>}

Call_build_table ==
    \E p_type \in PTypes, mapping \in Mappings :
        /\ fn' = "DataNormalizer.build_table"
        /\ args' = [p_type |-> p_type, mapping |-> mapping]
        /\ ret' = build_table(raw_data, mapping, p_type)
        /\ UNCHANGED <<session_state, raw_data, IrrVars>>

Call_get_column_headers ==
    \E p_type \in PTypes :
        /\ fn' = "DataNormalizer.get_column_headers"
        /\ args' = [p_type |-> p_type]
        /\ ret' = [k |-> "headers", headers |-> get_column_headers(raw_data, p_type)]
        /\ UNCHANGED <<session_state, raw_data, IrrVars>>

Call_ttm_flow ==
    \E a \in {[q_list |-> "q_is", key |-> "revenue"],
              [q_list |-> "q_cf", key |-> "operatingCashFlow"]} :
        /\ fn' = "InsightsAgent._ttm_flow"
        /\ args' = a
        /\ ret' = InsightsAgent_ttm_flow(raw_data[a.q_list], a.key)
        /\ UNCHANGED <<session_state, raw_data, IrrVars>>

Call_ttm_bs ==
    /\ fn' = "InsightsAgent._ttm_bs"
    /\ args' = [key |-> "totalAssets"]
    /\ ret' = InsightsAgent_ttm_bs(raw_data, "totalAssets")
    /\ UNCHANGED <<session_state, raw_data, IrrVars>>

Call_get_insights_liquidity ==
    /\ fn' = "InsightsAgent.get_insights_liquidity"
    /\ args' = [key |-> "none"]
    /\ ret' = get_insights_liquidity(raw_data)
    /\ UNCHANGED <<session_state, raw_data, IrrVars>>

Call_piotroski ==
    /\ fn' = "InsightsAgent._piotroski"
    /\ args' = [i |-> 0]
    /\ ret' = InsightsAgent_piotroski(raw_data)
    /\ UNCHANGED <<session_state, raw_data, IrrVars>>

Call_piotroski_at ==
    \E i \in 0 .. MaxAnnual - 1 :
        /\ fn' = "FinancialExtras._piotroski_at"
        /\ args' = [i |-> i]
        /\ ret' = FinancialExtras_piotroski_at(raw_data, i)
        /\ UNCHANGED <<session_state, raw_data, IrrVars>>

InitTtm == InitData(TtmFamily)

NextTtm ==
    \/ Call_build_table
    \/ Call_ttm_flow
    \/ Call_ttm_bs

SpecTtm == InitTtm /\ [][NextTtm]_vars

InitEntry == InitData(MalformedFamily)

NextEntry ==
    \/ Call_build_table
    \/ Call_get_column_headers
    \/ Call_get_insights_liquidity
    \/ Call_piotroski

SpecEntry == InitEntry /\ [][NextEntry]_vars

InitPiotroski == InitData(PiotroskiFamily)

NextPiotroski ==
    \/ Call_piotroski
    \/ Call_piotroski_at

SpecPiotroski == InitPiotroski /\ [][NextPiotroski]_vars

----------------------------------------------------------------------------
(* C1, C4, C10                                                              *)

\* The quarterly list a line item is reported in.
QuarterlyOf(data, key) ==
    IF key \in ISKeys THEN data.q_is ELSE IF key \in CFKeys THEN data.q_cf ELSE data.q_bs

\* The record reports a value for the key.
Present(rec, key) == rec.dict /\ rec.f[key].k \in {"num", "inf"}

\* The TTM of a flow item as the rule states it: the sum of the values present
\* among the four most recent quarterly records, null when there is none.
TtmOfFlow(data, key) ==
    LET first == Take(QuarterlyOf(data, key), TtmQuarters)
        at == {i \in 1 .. Len(first) : Present(first[i], key)}
    IN  IF at = {} THEN Null
        ELSE PySum([i \in 1 .. Len(first) |-> IF i \in at THEN first[i].f[key] ELSE Num(0)])

\* The TTM of a stock item as the rule states it: the value of the most recent
\* quarterly record, null when there is none.
TtmOfStock(data, key) ==
    IF Len(data.q_bs) > 0 /\ Present(data.q_bs[1], key) THEN data.q_bs[1].f[key] ELSE Null

TtmOf(data, key) ==
    IF key \in BSKeys THEN TtmOfStock(data, key) ELSE TtmOfFlow(data, key)

\* C1: in DataNormalizer.build_table and in InsightsAgent._ttm_flow / _ttm_bs
\* the TTM of a flow item is the sum of the values present among the four most
\* recent quarterly records, the TTM of a stock item is the value of the most
\* recent quarterly record, and the TTM is null when there is no quarterly
\* data for the item.
C1_TtmRule ==
    /\ fn \in {"InsightsAgent._ttm_flow", "InsightsAgent._ttm_bs"}
          => ret = TtmOf(raw_data, args.key)
    /\ (fn = "DataNormalizer.build_table" /\ ret.k = "rows")
          => \A i \in 1 .. Len(ret.rows) :
                ret.rows[i].tag # "none" =>
                    ret.rows[i].TTM = TtmOf(raw_data, ret.rows[i].key)

EntryPoints == {"DataNormalizer.build_table", "DataNormalizer.get_column_headers",
                "InsightsAgent.get_insights_liquidity", "InsightsAgent._piotroski"}

\* C4: whatever the dataset (empty lists, records that are not dictionaries,
\* fields absent, null, non-numeric or NaN), no computation entry point ends
\* in a raised exception.
C4_NoException ==
    fn \in EntryPoints => ret.k # "raise"

PiotroskiFns == {"InsightsAgent._piotroski", "FinancialExtras._piotroski_at"}

\* The annual value under key, idx periods back (from 0), is missing: no such
\* record, not a dictionary, or no number under the key.
Missing(src, key, idx) ==
    idx >= Len(src) \/ ~Present(src[idx + 1], key)

\* The share count of a period is missing: _piotroski reads
\* weightedAverageShsOut, _piotroski_at the diluted count or else the basic.
MissingShares(f, data, idx) ==
    IF f = "InsightsAgent._piotroski"
    THEN Missing(data.is_l, "weightedAverageShsOut", idx)
    ELSE LET dil == IF Missing(data.is_l, "weightedAverageShsOutDil", idx) THEN Null
                    ELSE data.is_l[idx + 1].f["weightedAverageShsOutDil"]
         IN  IF Truthy(dil) THEN FALSE
             ELSE Missing(data.is_l, "weightedAverageShsOut", idx)

\* The tests of the score at period i, out of the nine, that have a missing
\* input.
TestsMissingInput(f, data, i) ==
    LET m(lst, key, idx) == Missing(data[lst], key, idx)
    IN  {t \in 1 .. 9 :
           CASE t = 1 -> m("is_l", "netIncome", i) \/ m("bs_l", "totalAssets", i)
             [] t = 2 -> m("cf_l", "operatingCashFlow", i)
             [] t = 3 -> \/ m("is_l", "netIncome", i) \/ m("bs_l", "totalAssets", i)
                         \/ m("is_l", "netIncome", i + 1) \/ m("bs_l", "totalAssets", i + 1)
             [] t = 4 -> m("is_l", "netIncome", i) \/ m("cf_l", "operatingCashFlow", i)
             [] t = 5 -> m("bs_l", "longTermDebt", i) \/ m("bs_l", "longTermDebt", i + 1)
             [] t = 6 -> \/ m("bs_l", "totalCurrentAssets", i)
                         \/ m("bs_l", "totalCurrentLiabilities", i)
                         \/ m("bs_l", "totalCurrentAssets", i + 1)
                         \/ m("bs_l", "totalCurrentLiabilities", i + 1)
             [] t = 7 -> MissingShares(f, data, i) \/ MissingShares(f, data, i + 1)
             [] t = 8 -> \/ m("is_l", "grossProfit", i) \/ m("is_l", "revenue", i)
                         \/ m("is_l", "grossProfit", i + 1) \/ m("is_l", "revenue", i + 1)
             [] t = 9 -> \/ m("is_l", "revenue", i) \/ m("bs_l", "totalAssets", i)
                         \/ m("is_l", "revenue", i + 1) \/ m("bs_l", "totalAssets", i + 1)}

\* Fewer than two annual periods are available from period i on.
FewerThanTwo(data, i) ==
    Len(data.is_l) < i + 2 \/ Len(data.bs_l) < i + 2 \/ Len(data.cf_l) < i + 2

\* C10: the Piotroski score (InsightsAgent._piotroski and
\* FinancialExtras._piotroski_at) is null or an integer in [0, 9]; it is null
\* when fewer than two annual periods are available; otherwise it is a
\* number, and each test with a missing (null) input contributes 0 points:
\* no call raises.
C10_Piotroski ==
    fn \in PiotroskiFns =>
        /\ ret.k \in {"null", "num"}
        /\ ret.k = "num" => (ret.d = 1 /\ 0 <= ret.n /\ ret.n <= 9)
        /\ FewerThanTwo(raw_data, args.i) => ret = Null
        /\ ~FewerThanTwo(raw_data, args.i) =>
              /\ ret.k = "num"
              /\ ret.n <= 9 - Cardinality(TestsMissingInput(fn, raw_data, args.i))

\* Exactly one test has a null input and the other eight pass: the score is 8.
C10_Witness ==
    /\ fn \in PiotroskiFns
    /\ ret = Num(8)
    /\ Cardinality(TestsMissingInput(fn, raw_data, args.i)) = 1
    /\ \E key \in PiotroskiKeys : raw_data[IF key \in ISKeys THEN "is_l"
                                           ELSE IF key \in BSKeys THEN "bs_l" ELSE "cf_l"][1].f[key] = Null

----------------------------------------------------------------------------
(* cf_irr_tab.py: the forecasts of the valuation tab.  The floats that      *)
(* compound over the horizon (a forecast value, (1 + wacc) ** 10) are kept  *)
(* to 1/FxScale, truncated; every other operation is exact.                 *)

\* The resolution of the compounded floats.
FxScale == 1000
\* The forecast horizon, in years.
Horizon == 10

PyMul(a, b) == Frac(a.n * b.n, a.d * b.d)

\* max(a, b) of two finite floats
PyMax(a, b) == IF Lt(a, b) THEN b ELSE a

\* The float v kept to 1/FxScale.
Fx(v) ==
    LET q == Abs(v.n)
    IN  Frac(Sign(v.n) * ((q \div v.d) * FxScale + ((q % v.d) * FxScale) \div v.d),
             FxScale)

\* a * b of two floats on the grid, kept to 1/FxScale.
FxMul(a, b) == Fx([k |-> "num", n |-> a.n * b.n, d |-> a.d * b.d])

\* x ** e for an integer e >= 0
RECURSIVE FxPow(_, _)
FxPow(x, e) == IF e = 0 THEN Num(1) ELSE FxMul(FxPow(x, e - 1), Fx(x))

\* round(x, 1): to the nearest tenth, a tie to the even tenth.
Round1(x) ==
    LET t == x.n * 10
        q == t \div x.d
        m == t % x.d
    IN  IF 2 * m > x.d \/ (2 * m = x.d /\ q % 2 = 1) THEN Frac(q + 1, 10)
        ELSE Frac(q, 10)

\* _pct_default: a CAGR in (-1, 10) as a percentage with one decimal, anything
\* else as the fallback.
pct_default(v, fallback) ==
    IF IsStr(v) THEN fallback
    ELSE LET f == cf_s(v)
         IN  IF ~IsNone(f) /\ Lt(Num(-1), f) /\ Lt(f, Num(10))
             THEN Round1(PyMul(f, Num(100)))
             ELSE fallback

\* growth_rates[y - 1] if growth_rates and y - 1 < len(growth_rates) else 10.0
GrowthAt(growth_rates, y) ==
    IF growth_rates # <<>> /\ y - 1 < Len(growth_rates) THEN growth_rates[y]
    ELSE Num(10)

\* The running values of a forecast: base compounded by (1 + g / 100.0) for
\* each of the years 1 .. y.  (The one-element sets bind a value that is used
\* more than once.)
RECURSIVE Compounded(_, _, _)
Compounded(base, growth_rates, y) ==
    IF y = 0 THEN <<>>
    ELSE CHOOSE running \in
            {Append(before,
                    FxMul(IF y = 1 THEN Fx(base) ELSE before[y - 1],
                          Fx(PyAdd(Num(1), PyDiv(GrowthAt(growth_rates, y), Num(100)))))) :
                before \in {Compounded(base, growth_rates, y - 1)}} : TRUE

\* _ebitda_forecast_yoy: the rows of Table 2.2 (the year label and the $MM
\* scaling of the display columns are left out).
ebitda_forecast_yoy(base_ebt, growth_rates, exit_mult, net_debt, shares) ==
    LET ebt == cf_s(base_ebt)
        m   == PyOr(cf_s(exit_mult), Num(15))
        nd  == PyOr(cf_s(net_debt), Num(0))
        sh  == cf_s(shares)
    IN  IF IsNone(ebt) THEN <<>>
        ELSE CHOOSE rows \in
                {[y \in 1 .. Horizon |->
                    [YoY_Growth       |-> GrowthAt(growth_rates, y),
                     EBITDA           |-> ebt_running[y],
                     EV               |-> PyMul(ebt_running[y], m),
                     Fair_Value_share |-> cf_d(PySub(PyMul(ebt_running[y], m), nd), sh)]] :
                    ebt_running \in {Compounded(ebt, growth_rates, Horizon)}} : TRUE

\* _fcf_forecast_yoy: the rows of Table 3.2 and the cash flows handed to the
\* IRR solver; the cash flow of the last year includes the terminal value.
fcf_forecast_yoy(base_adj_ps, growth_rates, exit_yield_pct) ==
    LET base == cf_s(base_adj_ps)
        ey   == PyMax(PyDiv(PyOr(exit_yield_pct, Num(4)), Num(100)), Frac(1, 1000))
    IN  IF IsNone(base) THEN [rows |-> <<>>, irr_cashflows |-> <<>>]
        ELSE CHOOSE forecast \in
                {[rows |->
                    [y \in 1 .. Horizon |->
                        [YoY_Growth |-> GrowthAt(growth_rates, y),
                         Adj_FCF_s  |-> adj_ps[y]]],
                  irr_cashflows |->
                    [y \in 1 .. Horizon |->
                        IF y = Horizon THEN PyAdd(adj_ps[y], PyDiv(adj_ps[y], ey))
                        ELSE adj_ps[y]]] :
                    adj_ps \in {Compounded(base, growth_rates, Horizon)}} : TRUE

----------------------------------------------------------------------------
(* cf_irr_tab.py: the value blocks of render_cf_irr_tab.                    *)

PyFalse == [k |-> "bool", n |-> 0, d |-> 1]
PyTrue  == [k |-> "bool", n |-> 1, d |-> 1]

\* The ladder with its two lowest rungs exchanged.
damodaran_spread_swapped(coverage) ==
    IF      PyGt(coverage, Frac(85, 10))   THEN Frac(67, 10000)
    ELSE IF PyGt(coverage, Frac(65, 10))   THEN Frac(82, 10000)
    ELSE IF PyGt(coverage, Frac(55, 10))   THEN Frac(103, 10000)
    ELSE IF PyGt(coverage, Frac(425, 100)) THEN Frac(114, 10000)
    ELSE IF PyGt(coverage, Num(3))         THEN Frac(129, 10000)
    ELSE IF PyGt(coverage, Frac(25, 10))   THEN Frac(159, 10000)
    ELSE IF PyGt(coverage, Frac(225, 100)) THEN Frac(193, 10000)
    ELSE IF PyGt(coverage, Num(2))         THEN Frac(223, 10000)
    ELSE IF PyGt(coverage, Frac(175, 100)) THEN Frac(330, 10000)
    ELSE IF PyGt(coverage, Frac(15, 10))   THEN Frac(405, 10000)
    ELSE IF PyGt(coverage, Frac(125, 100)) THEN Frac(486, 10000)
    ELSE IF PyGt(coverage, Frac(8, 10))    THEN Frac(801, 10000)
    ELSE IF PyGt(coverage, Frac(65, 100))  THEN Frac(632, 10000)
    ELSE Frac(1000, 10000)

\* _damodaran_spread: the credit spread of an interest coverage.
damodaran_spread(coverage) ==
    IF      PyGt(coverage, Frac(85, 10))   THEN Frac(67, 10000)
    ELSE IF PyGt(coverage, Frac(65, 10))   THEN Frac(82, 10000)
    ELSE IF PyGt(coverage, Frac(55, 10))   THEN Frac(103, 10000)
    ELSE IF PyGt(coverage, Frac(425, 100)) THEN Frac(114, 10000)
    ELSE IF PyGt(coverage, Num(3))         THEN Frac(129, 10000)
    ELSE IF PyGt(coverage, Frac(25, 10))   THEN Frac(159, 10000)
    ELSE IF PyGt(coverage, Frac(225, 100)) THEN Frac(193, 10000)
    ELSE IF PyGt(coverage, Num(2))         THEN Frac(223, 10000)
    ELSE IF PyGt(coverage, Frac(175, 100)) THEN Frac(330, 10000)
    ELSE IF PyGt(coverage, Frac(15, 10))   THEN Frac(405, 10000)
    ELSE IF PyGt(coverage, Frac(125, 100)) THEN Frac(486, 10000)
    ELSE IF PyGt(coverage, Frac(8, 10))    THEN Frac(632, 10000)
    ELSE IF PyGt(coverage, Frac(65, 100))  THEN Frac(801, 10000)
    ELSE Frac(1000, 10000)

\* app.py: _damodaran_spread, the copy that get_wacc_components' caller uses.
app_damodaran_spread(coverage) ==
    IF      PyGt(coverage, Frac(85, 10))   THEN Frac(67, 10000)
    ELSE IF PyGt(coverage, Frac(65, 10))   THEN Frac(82, 10000)
    ELSE IF PyGt(coverage, Frac(55, 10))   THEN Frac(103, 10000)
    ELSE IF PyGt(coverage, Frac(425, 100)) THEN Frac(114, 10000)
    ELSE IF PyGt(coverage, Num(3))         THEN Frac(129, 10000)
    ELSE IF PyGt(coverage, Frac(25, 10))   THEN Frac(159, 10000)
    ELSE IF PyGt(coverage, Frac(225, 100)) THEN Frac(193, 10000)
    ELSE IF PyGt(coverage, Num(2))         THEN Frac(223, 10000)
    ELSE IF PyGt(coverage, Frac(175, 100)) THEN Frac(330, 10000)
    ELSE IF PyGt(coverage, Frac(15, 10))   THEN Frac(405, 10000)
    ELSE IF PyGt(coverage, Frac(125, 100)) THEN Frac(486, 10000)
    ELSE IF PyGt(coverage, Frac(8, 10))    THEN Frac(632, 10000)
    ELSE IF PyGt(coverage, Frac(65, 100))  THEN Frac(801, 10000)
    ELSE Frac(1000, 10000)

\* The WACC of the pass: the components w of the ticker with the risk-free
\* rate, beta and equity risk premium of the session.
compute_wacc(w, rf, beta, erp) ==
    LET spread == damodaran_spread(w.int_coverage)
        cod    == PyMul(PyAdd(rf, spread), PySub(Num(1), w.tax_rate))
        coe    == PyAdd(rf, PyMul(beta, erp))
        tc     == PyAdd(w.equity_val, w.debt_val)
        wd     == IF Truthy(tc) THEN PyDiv(w.debt_val, tc) ELSE Num(0)
        we     == IF Truthy(tc) THEN PyDiv(w.equity_val, tc) ELSE Num(0)
    IN  PyAdd(PyMul(wd, cod), PyMul(we, coe))

\* The price read from the first forecast row.
ebitda_price_first(rows) ==
    IF rows # <<>> THEN rows[1].Fair_Value_share ELSE Null

\* The year-10 price of the EV/EBITDA method: the fair value per share of the
\* last forecast row.
ebitda_price(rows) ==
    IF rows # <<>> THEN rows[Len(rows)].Fair_Value_share ELSE Null

\* The year-10 price of the FCF-yield method: the last adjusted FCF per share
\* over the exit yield.
fcf_price(rows, exit_yield_pct) ==
    IF rows # <<>> /\ PyGt(exit_yield_pct, Num(0))
       /\ ~IsNone(rows[Len(rows)].Adj_FCF_s)
    THEN PyDiv(rows[Len(rows)].Adj_FCF_s, PyDiv(exit_yield_pct, Num(100)))
    ELSE Null

avg_target_either(a, b) ==
    IF ~IsNone(a) \/ ~IsNone(b)
    THEN PyDiv(PyAdd(PyOr(a, Num(0)), PyOr(b, Num(0))), Num(2))
    ELSE Null

\* The blended target price (avg_target_ss and avg_target_now).
avg_target(a, b) ==
    IF ~IsNone(a) /\ ~IsNone(b) THEN PyDiv(PyAdd(a, b), Num(2)) ELSE Null

discount_compounding(avg_target_ss, wacc) ==
    PyMul(avg_target_ss, FxPow(PyAdd(Num(1), wacc), Horizon))

\* avg_target_ss / (1 + wacc) ** 10
discount(avg_target_ss, wacc) ==
    PyDiv(avg_target_ss, FxPow(PyAdd(Num(1), wacc), Horizon))

\* The fair value, the buy price and the on-sale flag of the pass.
final_output(avg_target_ss, wacc, mos_pct, price_now) ==
    IF ~IsNone(avg_target_ss) /\ ~IsNone(wacc) /\ PyGt(wacc, Num(-1))
    THEN LET fair_value == discount(avg_target_ss, wacc)
             buy_price  == PyMul(fair_value, PySub(Num(1), PyDiv(mos_pct, Num(100))))
         IN  [fair_value |-> fair_value,
              buy_price  |-> buy_price,
              on_sale    |-> IF IsNone(price_now) THEN Null
                             ELSE IF Lt(price_now, buy_price) THEN PyTrue
                             ELSE PyFalse]
    ELSE [fair_value |-> Null, buy_price |-> Null, on_sale |-> Null]

----------------------------------------------------------------------------
(* The session of the application: a pass of the script is the bootstrap of *)
(* app.py followed, once a ticker is loaded, by render_cf_irr_tab; between  *)
(* two passes the user edits a cell of a forecast table or a number input.  *)

PyList(items) == [k |-> "list", items |-> items]

\* The bootstrap defaults of app.py.
Bootstrap ==
    [key \in SessionKeys |->
        CASE key = "treasury_rate"           -> Frac(42, 1000)
          [] key = "cfirr_show_wacc_detail"  -> PyFalse
          [] key = "cfirr_wacc_override"     -> PyFalse
          [] key = "cfirr_wacc_rf_rate"      -> Frac(42, 1000)
          [] key = "cfirr_wacc_beta"         -> Num(1)
          [] key = "cfirr_wacc_erp"          -> Frac(46, 1000)
          [] key = "cfirr_ebitda_growth_yoy" -> PyList(<<>>)
          [] key = "cfirr_fcf_growth_yoy"    -> PyList(<<>>)
          [] key = "cfirr_ebitda_exit"       -> Num(15)
          [] key = "cfirr_fcf_exit_yield"    -> Num(4)
          [] key = "cfirr_mos"               -> Num(25)
          [] OTHER                           -> Null]

\* A list of n copies of v.
Repeat(v, n) == [i \in 1 .. n |-> v]

\* The values _init would store: the one-time defaults of render_cf_irr_tab.
RenderDefault(ss, hist) ==
    [key \in SessionKeys |->
        CASE key = "cfirr_ebitda_growth_yoy" ->
                PyList(Repeat(pct_default(hist.ebt_c5, Num(10)), Horizon))
          [] key = "cfirr_ebitda_exit" ->
                (IF Truthy(hist.ebt_avg_mult) THEN Round1(hist.ebt_avg_mult)
                 ELSE Num(15))
          [] key = "cfirr_fcf_growth_yoy" ->
                PyList(Repeat(pct_default(hist.fcf_c5, Num(10)), Horizon))
          [] key = "cfirr_fcf_exit_yield"   -> Num(4)
          [] key = "cfirr_mos"              -> Num(25)
          [] key = "cfirr_wacc_override"    -> PyFalse
          [] key = "cfirr_wacc_rf_rate" ->
                (IF ss["treasury_rate"].k = "absent" THEN Frac(42, 1000)
                 ELSE ss["treasury_rate"])
          [] key = "cfirr_wacc_beta"        -> hist.w.beta
          [] key = "cfirr_wacc_erp"         -> Frac(46, 1000)
          [] key = "cfirr_show_wacc_detail" -> PyFalse
          [] OTHER                          -> Absent]

\* The keys render_cf_irr_tab passes to _init.
InitKeys == SessionKeys \ {"treasury_rate", "cfirr_ebitda_global_growth",
                           "cfirr_fcf_global_growth"}

\* The ten _init calls: a key is set only when the session does not hold it.
init_session(ss, hist) ==
    [key \in SessionKeys |->
        IF key \in InitKeys /\ ss[key].k = "absent" THEN RenderDefault(ss, hist)[key]
        ELSE ss[key]]

\* st.data_editor on a forecast table: the growth column of the rows it is
\* given, with the cell the user edited when this pass was triggered by an
\* edit of this table and the editor is the one of the previous pass (it is
\* given the same rows); an editor given other rows is a new widget.
data_editor(rows, table, prev_rows, edit) ==
    LET col == [y \in 1 .. Len(rows) |-> rows[y].YoY_Growth]
    IN  IF edit.trigger = "edit" /\ edit.table = table /\ rows = prev_rows
        THEN [col EXCEPT ![edit.year] = edit.value]
        ELSE col

NoEdit == [trigger |-> "none", table |-> "none", year |-> 0, value |-> Null]

\* The rows the editor of a table was given in the previous pass.
PrevRows(prev, table) ==
    IF prev.k # "pass" THEN <<>>
    ELSE IF table = "ebitda" THEN prev.ebt_fc_rows
    ELSE prev.fcf_fc_rows_base

\* The values the upstream builders hand to the pass for the loaded ticker:
\* _ebitda_hist, _fcf_hist, the TTM balance sheet, the overview price, the
\* WACC components and the treasury rate fetched with the ticker.
HistBase ==
    [base_ebitda  |-> Num(100),
     ebt_avg_mult |-> Num(12),
     ebt_c5       |-> Frac(5, 100),
     adj_ps_ttm   |-> Num(2),
     fcf_c5       |-> Frac(1, 8),
     net_debt_ttm |-> Num(50),
     sh_ttm       |-> Num(10),
     price        |-> Num(40),
     w            |-> [beta |-> Frac(12, 10), int_coverage |-> Num(10),
                       tax_rate |-> Frac(1, 4), equity_val |-> Num(3),
                       debt_val |-> Num(1)],
     treasury_rate |-> Frac(45, 1000)]

HistFamily ==
    {HistBase}
    \cup {[HistBase EXCEPT !.base_ebitda = v] : v \in {Null, Num(-100)}}
    \cup {[HistBase EXCEPT !.adj_ps_ttm = v] : v \in {Null, Num(0)}}
    \cup {[HistBase EXCEPT !.ebt_c5 = v] : v \in {Null, NM, Num(20)}}
    \cup {[HistBase EXCEPT !.fcf_c5 = v] : v \in {Null, NM, Frac(-3, 100)}}
    \cup {[HistBase EXCEPT !.net_debt_ttm = v] : v \in {Num(0), Num(9000)}}
    \cup {[HistBase EXCEPT !.sh_ttm = v] : v \in {Null, Num(0)}}
    \cup {[HistBase EXCEPT !.price = v] : v \in {Null, Num(0), Num(300)}}
    \cup {[HistBase EXCEPT !.w.debt_val = Num(0)],
          [HistBase EXCEPT !.w.debt_val = Num(0), !.w.equity_val = Num(0)],
          [HistBase EXCEPT !.base_ebitda = Num(0), !.net_debt_ttm = Num(0),
                           !.adj_ps_ttm = Num(0)]}

\* The cells of a forecast table the user edits, and the rates the user enters.
EditYears == {1, Horizon}
EditRates == {Num(20)}

\* The number inputs of the tab and the values the user sets them to.
NumberInputs ==
    [cfirr_fcf_exit_yield |-> {Num(4), Num(5)},
     cfirr_mos            |-> {Num(25), Num(50)}]

InitSession ==
    /\ raw_data \in HistFamily
    /\ fn = "none"
    /\ args = NoEdit
    /\ ret = Null
    /\ IrrIdle
    /\ session_state = EmptySession

\* app.py, the session-state bootstrap at the top of every pass.
AppBootstrap ==
    /\ fn \in {"none", "_load_ticker", "interaction"}
    /\ fn' = "app.py"
    /\ session_state' = [key \in SessionKeys |->
                            IF session_state[key].k = "absent" THEN Bootstrap[key]
                            ELSE session_state[key]]
    /\ UNCHANGED <<raw_data, args, ret, IrrVars>>

\* _load_ticker, on the landing page: the data of the ticker is stored and the
\* script reruns.
LoadTicker ==
    /\ fn = "app.py"
    /\ args.trigger = "none"
    /\ fn' = "_load_ticker"
    /\ args' = [NoEdit EXCEPT !.trigger = "load"]
    /\ session_state' = [session_state EXCEPT !["treasury_rate"] = raw_data.treasury_rate]
    /\ UNCHANGED <<raw_data, ret, IrrVars>>

\* What a pass displays.  The IRR, the checklist and the sensitivity matrix
\* are represented by the cash flows and the growth rates they are computed
\* from.
Displayed(hist, wacc, ss1, ebt_fc_ss, fcf_ss, new_ebt_rates, new_fcf_rates, ebt_fc_now, fcf_now, ss3) ==
    LET price_now       == cf_s(hist.price)
        exit_yield_pct  == ss1["cfirr_fcf_exit_yield"]
        ebitda_price_ss == ebitda_price(ebt_fc_ss)
        fcf_price_ss    == fcf_price(fcf_ss.rows, exit_yield_pct)
        avg_target_ss   == avg_target(ebitda_price_ss, fcf_price_ss)
        final           == final_output(avg_target_ss, wacc, ss1["cfirr_mos"], price_now)
        ebitda_price_yr10 == ebitda_price(ebt_fc_now)
        fcf_price_yr10    == fcf_price(fcf_now.rows, ss3["cfirr_fcf_exit_yield"])
        shows_sens        == Truthy(price_now) /\ Truthy(hist.adj_ps_ttm)
    IN  [k |-> "pass",
         wacc              |-> wacc,
         ebt_growth_rates  |-> ss1["cfirr_ebitda_growth_yoy"].items,
         fcf_growth_rates  |-> ss1["cfirr_fcf_growth_yoy"].items,
         ebitda_price_ss   |-> ebitda_price_ss,
         fcf_price_ss      |-> fcf_price_ss,
         avg_target_ss     |-> avg_target_ss,
         fair_value        |-> final.fair_value,
         buy_price         |-> final.buy_price,
         on_sale           |-> final.on_sale,
         irr_cashflows     |-> IF Truthy(price_now) /\ PyGt(price_now, Num(0))
                                  /\ fcf_ss.irr_cashflows # <<>>
                               THEN <<PyNeg(price_now)>> \o fcf_ss.irr_cashflows
                               ELSE <<>>,
         ebt_fc_rows       |-> ebt_fc_ss,
         new_ebt_rates     |-> new_ebt_rates,
         ebitda_price_yr10 |-> ebitda_price_yr10,
         fcf_fc_rows_base  |-> fcf_ss.rows,
         new_fcf_rates     |-> new_fcf_rates,
         fcf_price_yr10    |-> fcf_price_yr10,
         avg_target_now    |-> avg_target(ebitda_price_yr10, fcf_price_yr10),
         irr_schedule      |-> IF Truthy(price_now) /\ fcf_ss.irr_cashflows # <<>>
                               THEN <<PyNeg(price_now)>> \o fcf_ss.irr_cashflows
                               ELSE <<>>,
         sens_growth_rates |-> IF shows_sens THEN ss3["cfirr_fcf_growth_yoy"].items
                               ELSE <<>>,
         sens_exit_yield   |-> IF shows_sens THEN ss3["cfirr_fcf_exit_yield"]
                               ELSE Null]

\* render_cf_irr_tab, on the company page: one pass over the values of the
\* loaded ticker, from the session the bootstrap left.  ret is what the
\* previous pass displayed and args the interaction that triggered this pass.
\* (Each \E over a one-element set binds a local variable of the function.)
RenderCfIrr ==
    /\ fn = "app.py"
    /\ args.trigger # "none"
    /\ fn' = "render_cf_irr_tab"
    /\ \E ss1 \in {init_session(session_state, raw_data)} :
       \E wacc \in {compute_wacc(raw_data.w, ss1["cfirr_wacc_rf_rate"],
                                 ss1["cfirr_wacc_beta"], ss1["cfirr_wacc_erp"])} :
       \* the forecasts from the session, for the outputs at the top
       \E ebt_fc_ss \in {ebitda_forecast_yoy(raw_data.base_ebitda,
                                             ss1["cfirr_ebitda_growth_yoy"].items,
                                             ss1["cfirr_ebitda_exit"],
                                             raw_data.net_debt_ttm, raw_data.sh_ttm)} :
       \E fcf_ss \in {fcf_forecast_yoy(raw_data.adj_ps_ttm,
                                       ss1["cfirr_fcf_growth_yoy"].items,
                                       ss1["cfirr_fcf_exit_yield"])} :
       \* Table 2.2 and its editor
       \E new_ebt_rates \in {IF ebt_fc_ss # <<>>
                             THEN data_editor(ebt_fc_ss, "ebitda",
                                              PrevRows(ret, "ebitda"), args)
                             ELSE ss1["cfirr_ebitda_growth_yoy"].items} :
       \E ss2 \in {IF ebt_fc_ss # <<>>
                   THEN [ss1 EXCEPT !["cfirr_ebitda_growth_yoy"] = PyList(new_ebt_rates)]
                   ELSE ss1} :
       \E ebt_fc_now \in {ebitda_forecast_yoy(raw_data.base_ebitda, new_ebt_rates,
                                              ss2["cfirr_ebitda_exit"],
                                              raw_data.net_debt_ttm, raw_data.sh_ttm)} :
       \* Table 3.2 and its editor
       \E new_fcf_rates \in {IF fcf_ss.rows # <<>>
                             THEN data_editor(fcf_ss.rows, "fcf",
                                              PrevRows(ret, "fcf"), args)
                             ELSE ss1["cfirr_fcf_growth_yoy"].items} :
       \E ss3 \in {IF fcf_ss.rows # <<>>
                   THEN [ss2 EXCEPT !["cfirr_fcf_growth_yoy"] = PyList(new_fcf_rates)]
                   ELSE ss2} :
       \E fcf_now \in {fcf_forecast_yoy(raw_data.adj_ps_ttm, new_fcf_rates,
                                        ss3["cfirr_fcf_exit_yield"])} :
          /\ session_state' = ss3
          /\ ret' = Displayed(raw_data, wacc, ss1, ebt_fc_ss, fcf_ss, new_ebt_rates,
                              new_fcf_rates, ebt_fc_now, fcf_now, ss3)
    /\ UNCHANGED <<raw_data, args, IrrVars>>

\* The user edits the growth rate of one year in a displayed forecast table.
EditCell ==
    /\ fn = "render_cf_irr_tab"
    /\ \E table \in {"ebitda", "fcf"}, y \in EditYears, v \in EditRates :
          /\ PrevRows(ret, table) # <<>>
          /\ (IF table = "ebitda" THEN ret.new_ebt_rates ELSE ret.new_fcf_rates)[y] # v
          /\ args' = [trigger |-> "edit", table |-> table, year |-> y, value |-> v]
    /\ fn' = "interaction"
    /\ UNCHANGED <<session_state, raw_data, ret, IrrVars>>

\* The user changes a number input: a keyed widget writes the session before
\* the script runs.
SetNumberInput ==
    /\ fn = "render_cf_irr_tab"
    /\ \E key \in DOMAIN NumberInputs : \E v \in NumberInputs[key] :
          /\ session_state[key] # v
          /\ session_state' = [session_state EXCEPT ![key] = v]
          /\ args' = [trigger |-> "widget", table |-> key, year |-> 0, value |-> v]
    /\ fn' = "interaction"
    /\ UNCHANGED <<raw_data, ret, IrrVars>>

NextSession ==
    \/ AppBootstrap
    \/ LoadTicker
    \/ RenderCfIrr
    \/ EditCell
    \/ SetNumberInput

SpecSession == InitSession /\ [][NextSession]_vars

----------------------------------------------------------------------------
(* Claims about the valuation tab                                           *)

\* t is the blend of the prices a and b: their mean when both are available,
\* null when either is null.
IsBlend(a, b, t) ==
    IF IsNone(a) \/ IsNone(b) THEN IsNone(t)
    ELSE IsNum(t) /\ PyMul(Num(2), t) = PyAdd(a, b)

\* C11: the blended target price is (priceA + priceB) / 2 when the EV/EBITDA
\* exit price and the FCF-yield exit price are both available and null when
\* either is null, for the target at the top of the pass (avg_target_ss) and
\* for the target of the comparison table (avg_target_now).
C11_BlendedTarget ==
    ret.k = "pass" =>
        /\ IsBlend(ret.ebitda_price_ss, ret.fcf_price_ss, ret.avg_target_ss)
        /\ IsBlend(ret.ebitda_price_yr10, ret.fcf_price_yr10, ret.avg_target_now)

\* A pass that blends two available prices, twice: the comparison table works
\* on an edited growth rate and its target differs from the one at the top.
C11_Witness ==
    /\ ret.k = "pass"
    /\ IsNum(ret.avg_target_ss)
    /\ IsNum(ret.avg_target_now)
    /\ ret.avg_target_now # ret.avg_target_ss
    /\ ret.ebitda_price_ss # ret.fcf_price_ss

\* The growth rate each year of a forecast works with, given the sequence
\* handed to it.
Effective(rates) == [y \in 1 .. Horizon |-> GrowthAt(rates, y)]

\* C17: in every render pass, the pass triggered by the edit of a growth rate
\* included, all displayed outputs are computed from one and the same growth
\* sequence, the edited one: the outputs at the top (IRR and verdict, fair
\* value, buy price, on-sale flag), the IRR cash-flow schedule, the target
\* price of the comparison table and the sensitivity matrix.
C17_OneSequencePerPass ==
    ret.k = "pass" =>
        /\ Effective(ret.ebt_growth_rates) = Effective(ret.new_ebt_rates)
        /\ Effective(ret.fcf_growth_rates) = Effective(ret.new_fcf_rates)
        /\ ret.sens_growth_rates # <<>> =>
              Effective(ret.sens_growth_rates) = Effective(ret.fcf_growth_rates)
        /\ ret.avg_target_ss = ret.avg_target_now

\* C18: on the first valuation render of a session the EBITDA and the
\* adjusted-FCF growth sequences in use have length 10 and every entry is the
\* default seeded from the 5-year CAGR (_pct_default), 10% only when the CAGR
\* is unavailable, "N/M" or out of band.
C18_SeededGrowth ==
    (ret.k = "pass" /\ args.trigger = "load") =>
        /\ ret.ebt_growth_rates = Repeat(pct_default(raw_data.ebt_c5, Num(10)), Horizon)
        /\ ret.fcf_growth_rates = Repeat(pct_default(raw_data.fcf_c5, Num(10)), Horizon)

\* a < b on two finite numbers, by quotients and remainders: the products of
\* a cross-multiplication are avoided.
RECURSIVE PosLt(_, _, _, _)
PosLt(a, b, c, d) ==
    \* a/b < c/d for a, c >= 0 and b, d > 0
    IF a \div b # c \div d THEN a \div b < c \div d
    ELSE IF c % d = 0 THEN FALSE
    ELSE IF a % b = 0 THEN TRUE
    ELSE PosLt(d, c % d, b, a % b)

ExactLt(x, y) ==
    IF x.n < 0 /\ y.n >= 0 THEN TRUE
    ELSE IF x.n >= 0 /\ y.n < 0 THEN FALSE
    ELSE IF x.n >= 0 THEN PosLt(x.n, x.d, y.n, y.d)
    ELSE PosLt(-y.n, y.d, -x.n, x.d)

\* The discount rates the fair value of a pass is compared at.
WaccGrid == {Frac(-1, 4), Num(0), Frac(1, 20), Frac(1, 4), Num(1)}

\* The fair value of the target t is lower at every higher WACC of the grid
\* and higher at every lower one.
Decreasing(t, wacc, fair_value) ==
    \A w2 \in WaccGrid :
        /\ ExactLt(wacc, w2) => ExactLt(discount(t, w2), fair_value)
        /\ ExactLt(w2, wacc) => ExactLt(fair_value, discount(t, w2))

\* C19 as stated: with the blended target fixed, the fair value
\* target / (1 + WACC)^10 strictly decreases as WACC increases, for every
\* WACC above -100% and every available target.
C19_AsStated ==
    (ret.k = "pass" /\ IsNum(ret.fair_value)) =>
        Decreasing(ret.avg_target_ss, ret.wacc, ret.fair_value)

\* C19, amended: the same for every available target above zero.
C19_FairValueDecreasing ==
    (ret.k = "pass" /\ IsNum(ret.fair_value) /\ ret.avg_target_ss.n > 0) =>
        Decreasing(ret.avg_target_ss, ret.wacc, ret.fair_value)

\* A pass with a positive target and a WACC strictly inside the grid.
C19_Witness ==
    /\ ret.k = "pass"
    /\ IsNum(ret.fair_value)
    /\ ret.avg_target_ss.n > 0
    /\ \E w1, w2 \in WaccGrid : ExactLt(w1, ret.wacc) /\ ExactLt(ret.wacc, w2)

----------------------------------------------------------------------------
(* InsightsAgent: the composite metrics                                     *)

\* self.ov.get(key) of the overview held next to the dataset.
OvGet(data, key) == IF data.ov[key] = Absent THEN Null ELSE data.ov[key]

\* InsightsAgent._adj_fcf; idx counts from 0.
InsightsAgent_adj_fcf(src_cf, src_is, idx) ==
    LET fcf == InsightsAgent_ann(src_cf, "freeCashFlow", idx)
        sbc == InsightsAgent_ann(src_is, "stockBasedCompensation", idx)
    IN  IF IsNone(fcf) THEN Null
        ELSE PySub(fcf, PyOr(InsightsAgent_safe(sbc), Num(0)))

\* InsightsAgent._ttm_adj_fcf
InsightsAgent_ttm_adj_fcf(data) ==
    LET fcf == InsightsAgent_ttm_flow(data.q_cf, "freeCashFlow")
        sbc == InsightsAgent_ttm_flow(data.q_is, "stockBasedCompensation")
    IN  IF fcf.k = "raise" \/ sbc.k = "raise" THEN Raise
        ELSE IF IsNone(fcf) THEN Null
        ELSE PySub(fcf, PyOr(InsightsAgent_safe(sbc), Num(0)))

\* InsightsAgent._ev
InsightsAgent_ev(data) ==
    LET mkt  == InsightsAgent_safe(OvGet(data, "mktCap"))
        debt == InsightsAgent_ttm_bs(data, "totalDebt")
        cash == InsightsAgent_ttm_bs(data, "cashAndCashEquivalents")
    IN  IF debt.k = "raise" THEN Raise
        ELSE IF IsNone(mkt) THEN Null
        ELSE PySub(PyAdd(mkt, PyOr(debt, Num(0))), PyOr(cash, Num(0)))

\* ic of get_insights_returns, with its inputs eq0 and debt0.
eq0(data)   == InsightsAgent_ttm_bs(data, "totalStockholdersEquity")
debt0(data) == InsightsAgent_ttm_bs(data, "totalDebt")

ic(data) ==
    IF eq0(data).k = "raise" THEN Raise
    ELSE IF NotNone(eq0(data)) \/ NotNone(debt0(data))
         THEN PyAdd(PyOr(eq0(data), Num(0)), PyOr(debt0(data), Num(0)))
         ELSE Null

\* div_abs, rp_abs, fcf_ttm and mkt of get_insights_dividends.
abs_ttm(data, key) ==
    LET v == InsightsAgent_ttm_flow(data.q_cf, key)
    IN  IF NotNone(v) THEN PyAbs(v) ELSE Null

div_abs(data) == abs_ttm(data, "commonDividendsPaid")
rp_abs(data)  == abs_ttm(data, "commonStockRepurchased")
fcf_ttm(data) == InsightsAgent_ttm_flow(data.q_cf, "freeCashFlow")
mkt(data)     == InsightsAgent_safe(OvGet(data, "mktCap"))

\* total_sh_yield of get_insights_dividends
total_sh_yield(data) ==
    IF div_abs(data).k = "raise" THEN Raise
    ELSE IF Truthy(mkt(data))
         THEN PyDiv(PyAdd(PyOr(div_abs(data), Num(0)), PyOr(rp_abs(data), Num(0))), mkt(data))
         ELSE Null

\* dr_fcf of get_insights_dividends
dr_fcf(data) ==
    IF div_abs(data).k = "raise" THEN Raise
    ELSE InsightsAgent_div(PyAdd(PyOr(div_abs(data), Num(0)), PyOr(rp_abs(data), Num(0))),
                           fcf_ttm(data))

\* _bs_avg of get_insights_efficiency
bs_avg(data, key) ==
    LET v0 == InsightsAgent_ttm_bs(data, key)
        v1 == InsightsAgent_ann(data.bs_l, key, 0)
    IN  IF v0.k = "raise" THEN Raise
        ELSE InsightsAgent_avg(SelectSeq(<<v0, v1>>, NotNone))

\* (365 / t) if t and t != 0 else None
days(t) == IF Truthy(t) THEN PyDiv(Num(365), t) ELSE Null

\* dso and dio of get_insights_efficiency
dso(data) ==
    LET rev_ttm == InsightsAgent_ttm_flow(data.q_is, "revenue")
        ar_avg  == bs_avg(data, "netReceivables")
    IN  IF rev_ttm.k = "raise" \/ ar_avg.k = "raise" THEN Raise
        ELSE days(InsightsAgent_div(rev_ttm, ar_avg))

dio(data) ==
    LET rev_ttm  == InsightsAgent_ttm_flow(data.q_is, "revenue")
        cogs_ttm == InsightsAgent_ttm_flow(data.q_is, "costOfRevenue")
        inv_avg  == bs_avg(data, "inventory")
    IN  IF rev_ttm.k = "raise" \/ inv_avg.k = "raise" THEN Raise
        ELSE days(InsightsAgent_div(PyOr(cogs_ttm, rev_ttm), inv_avg))

\* op_cycle of get_insights_efficiency
op_cycle(data) ==
    IF dso(data).k = "raise" \/ dio(data).k = "raise" THEN Raise
    ELSE IF NotNone(dso(data)) \/ NotNone(dio(data))
         THEN PyAdd(PyOr(dso(data), Num(0)), PyOr(dio(data), Num(0)))
         ELSE Null

\* --- datasets for the composite metrics: one quarter and one year of every
\* statement and an overview; up to two of the line items the metrics read
\* are null, absent or zero.
MetricItems == {"mktCap", "totalDebt", "cashAndCashEquivalents",
                "totalStockholdersEquity", "freeCashFlow", "stockBasedCompensation",
                "commonDividendsPaid", "commonStockRepurchased", "netReceivables",
                "inventory"}

MetricValues == {Null, Absent, Num(0)}

MetricBase == ("mktCap" :> Num(30)) @@ BaseValue

MetricDataSet(c) ==
    [is_l |-> <<ARec(1, Fields("is", c))>>, bs_l |-> <<ARec(1, Fields("bs", c))>>,
     cf_l |-> <<ARec(1, Fields("cf", c))>>,
     q_is |-> <<QRec(1, Fields("is", c))>>, q_bs |-> <<QRec(1, Fields("bs", c))>>,
     q_cf |-> <<QRec(1, Fields("cf", c))>>,
     rt_l |-> <<>>, ov |-> [key \in {"mktCap"} |-> c[key]]]

MetricFamily ==
    {MetricDataSet([[MetricBase EXCEPT ![i1] = v1] EXCEPT ![i2] = v2]) :
        i1 \in MetricItems, v1 \in MetricValues, i2 \in MetricItems, v2 \in MetricValues}
    \cup {MetricDataSet(MetricBase)}

\* The composite metrics, each with the code's names of its inputs.
Metrics == {"_ev", "_adj_fcf", "_ttm_adj_fcf", "total_sh_yield", "dr_fcf",
            "op_cycle", "ic"}

MetricOf(m, data) ==
    CASE m = "_ev"            -> InsightsAgent_ev(data)
      [] m = "_adj_fcf"       -> InsightsAgent_adj_fcf(data.cf_l, data.is_l, 0)
      [] m = "_ttm_adj_fcf"   -> InsightsAgent_ttm_adj_fcf(data)
      [] m = "total_sh_yield" -> total_sh_yield(data)
      [] m = "dr_fcf"         -> dr_fcf(data)
      [] m = "op_cycle"       -> op_cycle(data)
      [] m = "ic"             -> ic(data)

InputsOf(m, data) ==
    CASE m = "_ev"            -> <<mkt(data), InsightsAgent_ttm_bs(data, "totalDebt"),
                                   InsightsAgent_ttm_bs(data, "cashAndCashEquivalents")>>
      [] m = "_adj_fcf"       -> <<InsightsAgent_ann(data.cf_l, "freeCashFlow", 0),
                                   InsightsAgent_ann(data.is_l, "stockBasedCompensation", 0)>>
      [] m = "_ttm_adj_fcf"   -> <<fcf_ttm(data),
                                   InsightsAgent_ttm_flow(data.q_is, "stockBasedCompensation")>>
      [] m = "total_sh_yield" -> <<div_abs(data), rp_abs(data), mkt(data)>>
      [] m = "dr_fcf"         -> <<div_abs(data), rp_abs(data), fcf_ttm(data)>>
      [] m = "op_cycle"       -> <<dso(data), dio(data)>>
      [] m = "ic"             -> <<eq0(data), debt0(data)>>

\* One metric is computed by the method that shows it.
Call_metric ==
    \E m \in Metrics :
        /\ fn' = "InsightsAgent.metric"
        /\ args' = [key |-> m]
        /\ ret' = MetricOf(m, raw_data)
        /\ UNCHANGED <<session_state, raw_data, IrrVars>>

InitMetrics == InitData(MetricFamily)

NextMetrics == Call_metric

SpecMetrics == InitMetrics /\ [][NextMetrics]_vars

----------------------------------------------------------------------------
(* C12                                                                      *)

\* C12: a composite metric (enterprise value, adjusted FCF, total shareholder
\* yield, (dividends + buybacks) / FCF, operating cycle, invested capital) is
\* null whenever one of its inputs is null.
C12_NoPartialResult ==
    fn = "InsightsAgent.metric" =>
        LET inputs == InputsOf(args.key, raw_data)
        IN  (\E i \in 1 .. Len(inputs) : IsNone(inputs[i])) => IsNone(ret)

----------------------------------------------------------------------------
(* The coercion helpers: the value is drawn in the initial state and each   *)
(* action is one call of a helper on it.                                    *)

\* What a helper may be handed: a provider field, the string "N/M", a complex
\* number, a fraction, a string that spells a number.
CoerceValues ==
    Values \cup {NM, Complex}
    \cup {Frac(x, y) : x \in -MaxNum .. MaxNum, y \in 2 .. MaxNum}
    \cup {NumStr(x) : x \in -MaxNum .. MaxNum}

InitCoerce ==
    /\ raw_data = <<>>
    /\ fn = "none"
    /\ args \in [a : CoerceValues]
    /\ ret = Null
    /\ IrrIdle
    /\ session_state = EmptySession

Call_InsightsAgent_safe ==
    /\ fn' = "InsightsAgent._safe"
    /\ ret' = InsightsAgent_safe(args.a)
    /\ UNCHANGED <<session_state, raw_data, args, IrrVars>>

Call_fin_safe ==
    /\ fn' = "financials_tab._safe"
    /\ ret' = fin_safe(args.a)
    /\ UNCHANGED <<session_state, raw_data, args, IrrVars>>

Call_cf_s ==
    /\ fn' = "cf_irr_tab._s"
    /\ ret' = cf_s(args.a)
    /\ UNCHANGED <<session_state, raw_data, args, IrrVars>>

NextCoerce ==
    \/ Call_InsightsAgent_safe
    \/ Call_fin_safe
    \/ Call_cf_s

SpecCoerce == InitCoerce /\ [][NextCoerce]_vars

----------------------------------------------------------------------------
(* C13                                                                      *)

SafeFns == {"InsightsAgent._safe", "financials_tab._safe", "cf_irr_tab._s"}

\* C13: every coercion helper maps NaN, +Infinity, -Infinity, null and a
\* value that is not numeric to null (and so returns a finite number or
\* null).
C13_CoerceToNull ==
    fn \in SafeFns =>
        /\ args.a.k \in {"nan", "inf", "null", "str", "complex"} => ret = Null
        /\ ret = Null \/ IsNum(ret)

----------------------------------------------------------------------------
(* C14                                                                      *)

\* The row labels of get_insights_liquidity, in order.
LiquidityLabels ==
    <<"Current Ratio", "D/E", "D/EBITDA", "Net D/EBITDA", "Interest Coverage",
      "Cash to Debt">>

\* C14: for every raw dataset a category method returns its fixed rows (six
\* for liquidity), with the same labels in the same order and the same
\* column keys in every row.
C14_FixedRows ==
    fn = "InsightsAgent.get_insights_liquidity" =>
        /\ ret.k = "rows"
        /\ Len(ret.rows) = Len(LiquidityLabels)
        /\ \A i \in 1 .. Len(ret.rows) :
              /\ ret.rows[i].name = LiquidityLabels[i]
              /\ DOMAIN ret.rows[i] = {"name", "TTM", "avg5", "avg10"}

----------------------------------------------------------------------------
(* Datasets whose period records arrive in any order                        *)

\* The fiscal years a provider may report, most recent first.
LastYear == 2025
YearsBack == 3
\* A list longer than the ten periods of a table.
LongList == 11

\* The annual record of fiscal year y of statement s; every figure is y - 2000,
\* so that a figure tells the period it belongs to.
YearRec(s, y) ==
    Rec(("fiscalYear" :> Num(y)) @@ ("period" :> PeriodStr(5))
        @@ [key \in KeysOf(s) |-> Num(y - 2000)])

\* The sequences without repetition of at most n elements of S.
RECURSIVE Arrangements(_, _)
Arrangements(S, n) ==
    IF n = 0 THEN {<<>>}
    ELSE LET shorter == Arrangements(S, n - 1)
         IN  shorter \cup {Append(q, x) : q \in shorter, x \in S}

Distinct(q) == \A i, j \in 1 .. Len(q) : i # j => q[i] # q[j]

YearLists ==
    {q \in Arrangements(LastYear - YearsBack + 1 .. LastYear, YearsBack) : Distinct(q)}
    \cup {[i \in 1 .. LongList |-> LastYear + 1 - i],
          [i \in 1 .. LongList |-> LastYear - LongList + i]}

\* The annual list of statement s for the fiscal years ys; gap = i > 0 puts a
\* record that is not a dictionary (a JSON null) in place of the i-th record.
YearList(s, ys, gap) ==
    [i \in 1 .. Len(ys) |-> IF i = gap THEN NotDict ELSE YearRec(s, ys[i])]

\* The provider reports the statements one by one: the balance sheet may lack
\* the most recent year of the income statement (drop = 1).
PeriodDataSet(ys, gap, drop) ==
    [[[BaseDataSet EXCEPT !.is_l = YearList("is", ys, gap)]
                   EXCEPT !.bs_l = YearList("bs", SubSeq(ys, 1 + drop, Len(ys)), 0)]
                   EXCEPT !.cf_l = YearList("cf", ys, 0)]

PeriodFamily ==
    {PeriodDataSet(ys, gap, drop) : ys \in YearLists, gap \in {0, 2}, drop \in {0, 1}}

InitPeriods == InitData(PeriodFamily)

NextPeriods ==
    \/ Call_get_column_headers
    \/ Call_build_table

SpecPeriods == InitPeriods /\ [][NextPeriods]_vars

----------------------------------------------------------------------------
(* C15, C16                                                                 *)

\* The period columns of a list of headers: what follows "Item" and "TTM" and
\* is not padding.
IsPeriod(h) == h.t = "year"
PeriodColumns(headers) == SelectSeq(SubSeq(headers, 3, Len(headers)), IsPeriod)

\* Label a is of a later period than label b.
Later(a, b) == a.y > b.y \/ (a.y = b.y /\ a.p > b.p)

MostRecentFirst(cols) == \A i \in 1 .. Len(cols) - 1 : Later(cols[i], cols[i + 1])

\* C15: in whatever order the period records arrive, the period columns of
\* get_column_headers (the columns of build_table) are in date-descending
\* order, most recent first, and there are at most ten of them.
C15_MostRecentFirst ==
    fn = "DataNormalizer.get_column_headers" /\ args.p_type = "annual" =>
        /\ MostRecentFirst(PeriodColumns(ret.headers))
        /\ Len(PeriodColumns(ret.headers)) <= NumPeriods

\* The label get_column_headers gives an annual record that has a year.
OwnLabel(rec) == Label("year", YearOf(rec), 0)

\* The annual list build_table found the key of a row in.
FoundList(data, tag) ==
    CASE tag = "is" -> data.is_l [] tag = "bs" -> data.bs_l [] tag = "cf" -> data.cf_l

\* C16: every value build_table puts under a period column label is the
\* value of the record (of the list the line item was found in) whose own
\* period label is that column label.
C16_ValueUnderOwnPeriod ==
    (fn = "DataNormalizer.build_table" /\ args.p_type = "annual" /\ ret.k = "rows") =>
        \A i \in 1 .. Len(ret.rows) :
            LET row   == ret.rows[i]
                found == FoundList(raw_data, row.tag)
            IN  \A c \in 1 .. Len(row.cols) :
                    \E j \in 1 .. Len(found) :
                        /\ found[j].dict
                        /\ OwnLabel(found[j]) = row.cols[c].h
                        /\ Get0(found[j], row.key) = row.cols[c].v

----------------------------------------------------------------------------
(* C20                                                                      *)

\* C20: for the cash flows [-100, 110] _irr_calc returns through its
\* convergence test, and what it returns is 0.10 (to within one grid unit),
\* the rate at which the net present value -100 + 110 / (1 + r) is zero.
C20_RoundTrip ==
    (pc = "done" /\ cashflows = <<Num(-100), Num(110)>>) =>
        /\ path = "converged"
        /\ IsNum(ret)
        /\ Abs(10 * ret.n - ret.d) < 10
        /\ (-100) * 11 + 110 * 10 = 0

\* A call on [-100, 110] has returned the initial guess 0.10 from the
\* convergence test of its first pass.
C20_Witness ==
    /\ pc = "done" /\ fn = "_irr_calc" /\ args.caller = "direct"
    /\ cashflows = <<Num(-100), Num(110)>>
    /\ path = "converged" /\ it = 1 /\ ret = Rate(r0)

----------------------------------------------------------------------------
(* C21                                                                      *)

\* The value v strictly satisfies rule i: above its threshold, or below it
\* for the rule where lower is better.
Strictly(i, v) ==
    IF Rules[i].lower THEN Lt(v, Rules[i].threshold) ELSE Lt(Rules[i].threshold, v)

\* C21: a checklist rule passes iff its value is a number that strictly
\* satisfies its threshold, fails iff its value is a number that does not,
\* and is indeterminate iff its value is null or "N/M"; a value equal to its
\* threshold does not pass.
C21_StrictThreshold ==
    fn = "checklist" =>
        \A i \in 1 .. Len(Rules) :
            /\ (ret.flags[i] = "true") <=> (IsNum(args[i]) /\ Strictly(i, args[i]))
            /\ (ret.flags[i] = "false") <=> (IsNum(args[i]) /\ ~Strictly(i, args[i]))
            /\ (ret.flags[i] = "null") <=> (IsNone(args[i]) \/ IsStr(args[i]))

----------------------------------------------------------------------------
(* The tax rate of NOPAT (get_insights_returns, get_returns)                *)

\* FinancialExtras._ttm_q
FinancialExtras_ttm_q(q_list, key) ==
    IF Len(q_list) = 0 THEN Null
    ELSE LET recs  == SelectSeq(Take(q_list, TtmQuarters), IsDictRec)
             vals  == [i \in 1 .. Len(recs) |-> fin_safe(Get(recs[i], key))]
             clean == SelectSeq(vals, NotNone)
         IN  IF clean = <<>> THEN Null ELSE PySum(clean)

\* min(a, b) and max(a, b) as Python evaluates them: the first argument
\* unless the second compares smaller (larger).
PyMin2(a, b) == IF PyLt(b, a) THEN b ELSE a
PyMax2(a, b) == IF PyGt(b, a) THEN b ELSE a

\* max(0, min(tax / ebt, 0.5))
clamped(tax, ebt) == PyMax2(Num(0), PyMin2(PyDiv(tax, ebt), Frac(1, 2)))

\* `ebt_ttm and ebt_ttm != 0 and tax_ttm is not None`
ratio_defined(tax, ebt) == Truthy(ebt) /\ NotNone(tax)

\* The rate 0.21 used when the ratio is undefined.
DefaultTax == Frac(21, 100)

\* tax_rate and nopat of InsightsAgent.get_insights_returns: the rate that
\* multiplies EBIT is `tax_rate or 0.21`.
InsightsAgent_nopat(data) ==
    LET ebit_ttm == InsightsAgent_ttm_flow(data.q_is, "operatingIncome")
        tax_ttm  == InsightsAgent_ttm_flow(data.q_is, "incomeTaxExpense")
        ebt_ttm  == InsightsAgent_ttm_flow(data.q_is, "incomeBeforeTax")
        tax_rate == IF ratio_defined(tax_ttm, ebt_ttm) THEN clamped(tax_ttm, ebt_ttm) ELSE Null
        applied  == PyOr(tax_rate, DefaultTax)
    IN  IF ebit_ttm.k = "raise" THEN Raise
        ELSE [k |-> "nopat", tax_rate |-> applied,
              nopat |-> IF NotNone(ebit_ttm) THEN PyMul(ebit_ttm, PySub(Num(1), applied))
                        ELSE Null]

\* tr and nopat of FinancialExtras.get_returns
FinancialExtras_nopat(data) ==
    LET ebit_ttm == FinancialExtras_ttm_q(data.q_is, "operatingIncome")
        tax_ttm  == FinancialExtras_ttm_q(data.q_is, "incomeTaxExpense")
        ebt_ttm  == FinancialExtras_ttm_q(data.q_is, "incomeBeforeTax")
        tr       == IF ratio_defined(tax_ttm, ebt_ttm) THEN clamped(tax_ttm, ebt_ttm)
                    ELSE DefaultTax
    IN  [k |-> "nopat", tax_rate |-> tr,
         nopat |-> IF NotNone(ebit_ttm) THEN PyMul(ebit_ttm, PySub(Num(1), tr)) ELSE Null]

\* --- datasets for the tax rate: one quarter whose EBIT, tax expense and
\* pre-tax income are null, absent, zero, negative or positive.
TaxValues == {Null, Absent, Num(0), Num(-1), Num(1), Num(2), Num(4)}

TaxDataSet(ebit, tax, ebt) ==
    [BaseDataSet EXCEPT !.q_is =
        <<QRec(1, [[[Fields("is", BaseValue) EXCEPT !["operatingIncome"] = ebit]
                                             EXCEPT !["incomeTaxExpense"] = tax]
                                             EXCEPT !["incomeBeforeTax"] = ebt])>>]

TaxFamily == {TaxDataSet(ebit, tax, ebt) : ebit \in TaxValues, tax \in TaxValues, ebt \in TaxValues}

Call_get_insights_returns ==
    /\ fn' = "InsightsAgent.get_insights_returns"
    /\ args' = [key |-> "none"]
    /\ ret' = InsightsAgent_nopat(raw_data)
    /\ UNCHANGED <<session_state, raw_data, IrrVars>>

Call_get_returns ==
    /\ fn' = "FinancialExtras.get_returns"
    /\ args' = [key |-> "none"]
    /\ ret' = FinancialExtras_nopat(raw_data)
    /\ UNCHANGED <<session_state, raw_data, IrrVars>>

InitReturns == InitData(TaxFamily)

NextReturns ==
    \/ Call_get_insights_returns
    \/ Call_get_returns

SpecReturns == InitReturns /\ [][NextReturns]_vars

----------------------------------------------------------------------------
(* C22                                                                      *)

\* The figures of the latest quarter, as both implementations read them when
\* there is one quarter.
TaxOf(data) == Get(data.q_is[1], "incomeTaxExpense")
EbtOf(data) == Get(data.q_is[1], "incomeBeforeTax")

\* tax / ebt clamped to [0, 0.5], for numbers tax and ebt # 0.
ClampedRatio(tax, ebt) ==
    LET q == Frac(tax.n * ebt.d, tax.d * ebt.n)
    IN  IF q.n < 0 THEN Num(0) ELSE IF 2 * q.n > q.d THEN Frac(1, 2) ELSE q

\* C22: in both implementations the tax rate applied in NOPAT is the TTM tax
\* expense over the TTM pre-tax income clamped to [0, 0.5] whenever the ratio
\* is defined, 0.21 only when it is not, and so both apply the same rate.
C22_TaxRate ==
    fn \in {"InsightsAgent.get_insights_returns", "FinancialExtras.get_returns"} =>
        LET tax == TaxOf(raw_data)
            ebt == EbtOf(raw_data)
        IN  /\ ret.tax_rate = IF IsNum(tax) /\ IsNum(ebt) /\ ebt.n # 0
                              THEN ClampedRatio(tax, ebt) ELSE DefaultTax
            /\ InsightsAgent_nopat(raw_data).tax_rate = FinancialExtras_nopat(raw_data).tax_rate

----------------------------------------------------------------------------
(* The credit-spread ladder: two coverages are drawn in the initial state   *)
(* and each action is one copy of _damodaran_spread applied to both.        *)

\* Coverages are drawn on a grid of 1/CoverageScale, from -1 up to MaxCoverage.
CoverageScale == 20
MaxCoverage == 9

Coverages ==
    {Frac(x, CoverageScale) : x \in -CoverageScale .. MaxCoverage * CoverageScale}
    \cup {PosInf, NegInf, NaN}

InitSpread ==
    /\ raw_data = <<>>
    /\ fn = "none"
    /\ args \in [c1 : Coverages, c2 : Coverages]
    /\ ret = Null
    /\ IrrIdle
    /\ session_state = EmptySession

Call_cf_damodaran_spread ==
    /\ fn' = "cf_irr_tab._damodaran_spread"
    /\ ret' = [k |-> "spreads", s1 |-> damodaran_spread(args.c1),
               s2 |-> damodaran_spread(args.c2)]
    /\ UNCHANGED <<session_state, raw_data, args, IrrVars>>

Call_app_damodaran_spread ==
    /\ fn' = "app._damodaran_spread"
    /\ ret' = [k |-> "spreads", s1 |-> app_damodaran_spread(args.c1),
               s2 |-> app_damodaran_spread(args.c2)]
    /\ UNCHANGED <<session_state, raw_data, args, IrrVars>>

NextSpread ==
    \/ Call_cf_damodaran_spread
    \/ Call_app_damodaran_spread

SpecSpread == InitSpread /\ [][NextSpread]_vars

----------------------------------------------------------------------------
(* C23                                                                      *)

SpreadFns == {"cf_irr_tab._damodaran_spread", "app._damodaran_spread"}

\* C23: the spread never increases with the coverage (c1 <= c2 gives
\* spread(c1) >= spread(c2)), it is 0.0067 above a coverage of 8.5 and 0.10
\* at or below 0.65, and the copies of app.py and cf_irr_tab.py agree on
\* every coverage.
C23_SpreadLadder ==
    fn \in SpreadFns =>
        /\ PyLe(args.c1, args.c2) => PyGe(ret.s1, ret.s2)
        /\ PyGt(args.c1, Frac(85, 10)) => ret.s1 = Frac(67, 10000)
        /\ PyLe(args.c1, Frac(65, 100)) => ret.s1 = Frac(1, 10)
        /\ damodaran_spread(args.c1) = app_damodaran_spread(args.c1)

\* A coverage of exactly 0.65 gets the top spread and a higher coverage a
\* lower one.
C23_Witness ==
    /\ fn \in SpreadFns
    /\ args.c1 = Frac(65, 100) /\ ret.s1 = Frac(1, 10)
    /\ PyLt(args.c1, args.c2) /\ PyGt(ret.s1, ret.s2)

----------------------------------------------------------------------------
(* The EBITDA forecast on its own: the arguments render_cf_irr_tab passes   *)
(* are drawn in the initial state, _ebitda_forecast_yoy builds the rows and *)
(* the pass reads the year-10 price from them.                              *)

\* The exit multiples the number input (min_value 1.0, max_value 100.0) and
\* the bootstrap (15.0) can leave in the session.
MinExitMultiple == 1
MaxExitMultiple == 100
ExitMultiples == {Num(MinExitMultiple), Num(12), Frac(155, 10), Num(MaxExitMultiple)}

\* The growth sequences of the session: the empty list of the bootstrap or
\* one rate per forecast year, as the editor returns them.
ForecastRates ==
    {<<>>}
    \cup {[y \in 1 .. Horizon |-> g] : g \in {Num(5), Num(0), Num(-10)}}
    \cup {[y \in 1 .. Horizon |-> IF y = 1 THEN Num(20) ELSE Num(5)],
          [y \in 1 .. Horizon |-> IF y = Horizon THEN Frac(-25, 10) ELSE Num(10)]}

\* net_debt_ttm is a number in every pass (0.0 without a TTM debt); sh_ttm is
\* null without quarterly records.
ForecastInputs ==
    [base_ebt     : {Null, NaN, Num(100), Num(-100), Num(0)},
     growth_rates : ForecastRates,
     exit_mult    : ExitMultiples,
     net_debt     : {Num(0), Num(50), Num(-50), Num(9000)},
     shares       : {Null, Num(0), Num(10)}]

InitForecast ==
    /\ raw_data = <<>>
    /\ fn = "none"
    /\ args \in ForecastInputs
    /\ ret = Null
    /\ IrrIdle
    /\ session_state = EmptySession

Call_ebitda_forecast_yoy ==
    /\ fn = "none"
    /\ fn' = "_ebitda_forecast_yoy"
    /\ ret' = [k |-> "ebitda_forecast",
               rows |-> ebitda_forecast_yoy(args.base_ebt, args.growth_rates,
                                            args.exit_mult, args.net_debt, args.shares),
               ebitda_price_ss |-> Absent]
    /\ UNCHANGED <<session_state, raw_data, args, IrrVars>>

\* render_cf_irr_tab: ebitda_price_ss, read from the rows just built.
ReadEbitdaPrice ==
    /\ fn = "_ebitda_forecast_yoy"
    /\ fn' = "render_cf_irr_tab.ebitda_price_ss"
    /\ ret' = [ret EXCEPT !.ebitda_price_ss = ebitda_price(ret.rows)]
    /\ UNCHANGED <<session_state, raw_data, args, IrrVars>>

NextForecast ==
    \/ Call_ebitda_forecast_yoy
    \/ ReadEbitdaPrice

SpecForecast == InitForecast /\ [][NextForecast]_vars

----------------------------------------------------------------------------
(* C24                                                                      *)

\* The EBITDA the row of year y compounds from: the base for the first year,
\* the EBITDA of the row before for the others.
EbitdaBefore(rows, base_ebt, y) == IF y = 1 THEN Fx(cf_s(base_ebt)) ELSE rows[y - 1].EBITDA

\* C24: for a non-null base EBITDA, every forecast year y has
\* EBITDA[y] = EBITDA[y-1] x (1 + growth[y]) with EBITDA[0] the base,
\* EV[y] = EBITDA[y] x the exit multiple passed in, and fair value per
\* share[y] = (EV[y] - net debt) / shares, null when shares is null or zero;
\* the year-10 price the pass uses for the EV/EBITDA method is the fair value
\* per share of the last row.  (growth[y] is the rate of the row, the rate
\* passed in for the year where there is one; a product is kept to 1/FxScale.)
C24_EbitdaForecast ==
    (fn = "render_cf_irr_tab.ebitda_price_ss" /\ ~IsNone(cf_s(args.base_ebt))) =>
        /\ Len(ret.rows) = Horizon
        /\ \A y \in 1 .. Horizon :
              LET row == ret.rows[y]
              IN  /\ y <= Len(args.growth_rates) => row.YoY_Growth = args.growth_rates[y]
                  /\ row.EBITDA =
                        FxMul(EbitdaBefore(ret.rows, args.base_ebt, y),
                              Fx(PyAdd(Num(1), PyDiv(row.YoY_Growth, Num(100)))))
                  /\ row.EV = PyMul(row.EBITDA, args.exit_mult)
                  /\ IF IsNone(args.shares) \/ args.shares = Num(0)
                     THEN IsNone(row.Fair_Value_share)
                     ELSE /\ IsNum(row.Fair_Value_share)
                          /\ PyMul(row.Fair_Value_share, args.shares)
                                = PySub(row.EV, args.net_debt)
        /\ ret.ebitda_price_ss = ret.rows[Horizon].Fair_Value_share

\* A forecast with an exit multiple other than 15, a net debt and a growth
\* rate that changes over the years: the year-10 price is a number and is not
\* the fair value of the first row.
C24_Witness ==
    /\ fn = "render_cf_irr_tab.ebitda_price_ss"
    /\ args.exit_mult = Num(12)
    /\ args.net_debt = Num(50)
    /\ args.growth_rates # <<>>
    /\ IsNum(ret.ebitda_price_ss)
    /\ ret.ebitda_price_ss # ret.rows[1].Fair_Value_share
    /\ ret.rows[Horizon].EBITDA # ret.rows[1].EBITDA

----------------------------------------------------------------------------
(* cf_irr_tab.py: the IRR sensitivity matrix.  A call of _irr_calc on a     *)
(* vector of 1 + Horizon cash flows is represented by the vector it works   *)
(* on, and by null where its guard returns None.                            *)

\* _irr_calc(cashflows), by its guard and its argument.
irr_of(cfs) == IF IrrGuard(cfs) THEN Null ELSE [k |-> "irr", cashflows |-> cfs]

\* price_factors and yield_offsets
PriceFactors == <<Frac(-20, 100), Frac(-10, 100), Num(0), Frac(10, 100), Frac(20, 100)>>
YieldOffsets == <<Num(-2), Num(-1), Num(0), Num(1), Num(2)>>

\* _irr_sensitivity_yield: the matrix (the labels are left out).
irr_sensitivity_yield(base_adj_ps, growth_rates, exit_yield_pct, current_price) ==
    LET px   == cf_s(current_price)
        base == cf_s(base_adj_ps)
        ey   == PyOr(exit_yield_pct, Num(4))
    IN  CHOOSE matrix \in
            {[i \in 1 .. Len(PriceFactors) |->
                [j \in 1 .. Len(YieldOffsets) |->
                    LET entry  == IF Truthy(px)
                                  THEN PyMul(px, PyAdd(Num(1), PriceFactors[i]))
                                  ELSE Null
                        y_here == PyDiv(PyAdd(ey, YieldOffsets[j]), Num(100))
                    IN  IF IsNone(base) \/ IsNone(entry) \/ PyLe(entry, Num(0))
                           \/ PyLe(y_here, Frac(1, 1000))
                        THEN Null
                        ELSE irr_of(<<PyNeg(entry)>> \o
                                    [y \in 1 .. Horizon |->
                                        IF y < Horizon THEN adj_ps[y]
                                        ELSE PyAdd(adj_ps[y], PyDiv(adj_ps[y], y_here))])]] :
                adj_ps \in {IF IsNone(base) THEN <<>>
                            ELSE Compounded(base, growth_rates, Horizon)}} : TRUE

\* render_cf_irr_tab: irr_val, the headline IRR.
irr_val(price_now, fcf_cashflows) ==
    IF Truthy(price_now) /\ PyGt(price_now, Num(0)) /\ fcf_cashflows # <<>>
    THEN irr_of(<<PyNeg(price_now)>> \o fcf_cashflows)
    ELSE Null

\* The exit yields of the number input (min_value 0.5, max_value 50.0, step
\* 0.5), the prices of the overview and the TTM adjusted FCF per share for
\* which the tab shows the matrix (`if price_now and adj_ps_ttm`).
SensitivityInputs ==
    [base_adj_ps    : {Num(2), Frac(1, 2), Num(-1)},
     growth_rates   : ForecastRates,
     exit_yield_pct : {Frac(1, 2), Num(2), Frac(25, 10), Num(4), Num(50)},
     current_price  : {Num(40), Num(300), Num(-5)}]

InitSensitivity ==
    /\ raw_data = <<>>
    /\ fn = "none"
    /\ args \in SensitivityInputs
    /\ ret = Null
    /\ IrrIdle
    /\ session_state = EmptySession

\* The headline IRR of the pass, from _fcf_forecast_yoy.
Call_headline_irr ==
    /\ fn = "none"
    /\ fn' = "render_cf_irr_tab.irr_val"
    /\ ret' = [k |-> "irr_val",
               irr_val |-> irr_val(cf_s(args.current_price),
                                   fcf_forecast_yoy(args.base_adj_ps, args.growth_rates,
                                                    args.exit_yield_pct).irr_cashflows),
               matrix |-> <<>>]
    /\ UNCHANGED <<session_state, raw_data, args, IrrVars>>

\* The matrix of the same pass.
Call_irr_sensitivity_yield ==
    /\ fn = "render_cf_irr_tab.irr_val"
    /\ fn' = "_irr_sensitivity_yield"
    /\ ret' = [ret EXCEPT !.k = "sensitivity",
                          !.matrix = irr_sensitivity_yield(args.base_adj_ps,
                                                           args.growth_rates,
                                                           args.exit_yield_pct,
                                                           args.current_price)]
    /\ UNCHANGED <<session_state, raw_data, args, IrrVars>>

NextSensitivity ==
    \/ Call_headline_irr
    \/ Call_irr_sensitivity_yield

SpecSensitivity == InitSensitivity /\ [][NextSensitivity]_vars

----------------------------------------------------------------------------
(* C25                                                                      *)

\* _irr_calc([-entry] + cash flows of _fcf_forecast_yoy) at the entry price
\* price x (1 + f_i) and the exit yield + d_j.
PipelineCell(a, i, j) ==
    irr_of(<<PyNeg(PyMul(a.current_price, PyAdd(Num(1), PriceFactors[i])))>> \o
           fcf_forecast_yoy(a.base_adj_ps, a.growth_rates,
                            PyAdd(a.exit_yield_pct, YieldOffsets[j])).irr_cashflows)

\* C25: every cell (i, j) of the 5x5 sensitivity matrix equals
\* _irr_calc([-entry] + cash flows of _fcf_forecast_yoy) at entry =
\* price x (1 + f_i) and exit yield + d_j, and the centre cell equals the
\* headline IRR.
C25_SamePipeline ==
    fn = "_irr_sensitivity_yield" =>
        /\ \A i \in 1 .. Len(PriceFactors), j \in 1 .. Len(YieldOffsets) :
              ret.matrix[i][j] = PipelineCell(args, i, j)
        /\ ret.matrix[3][3] = ret.irr_val

----------------------------------------------------------------------------
(* Adjusted FCF in its three implementations: InsightsAgent,                *)
(* FinancialExtras and cf_irr_tab._fcf_hist.                                *)

\* FinancialExtras._adj_fcf_ttm
FinancialExtras_adj_fcf_ttm(data) ==
    LET fcf == FinancialExtras_ttm_q(data.q_cf, "freeCashFlow")
        sbc == FinancialExtras_ttm_q(data.q_cf, "stockBasedCompensation")
    IN  IF IsNone(fcf) THEN Null ELSE PySub(fcf, PyOr(fin_safe(sbc), Num(0)))

\* FinancialExtras._adj_fcf_hist(i), annual; i counts from 0.
FinancialExtras_adj_fcf_hist(data, i) ==
    LET fcf == FinancialExtras_g(data.cf_l, "freeCashFlow", i)
        sbc == FinancialExtras_g(data.cf_l, "stockBasedCompensation", i)
    IN  IF IsNone(fcf) THEN Null ELSE PySub(fcf, PyOr(fin_safe(sbc), Num(0)))

\* cf_irr_tab._ttm_flow
cf_ttm_flow(q_list, key) ==
    IF Len(q_list) = 0 THEN Null
    ELSE LET recs  == SelectSeq(Take(q_list, TtmQuarters), IsDictRec)
             vals  == [i \in 1 .. Len(recs) |-> cf_s(Get(recs[i], key))]
             clean == SelectSeq(vals, NotNone)
         IN  IF clean = <<>> THEN Null ELSE PySum(clean)

\* cf_irr_tab._fcf_hist: adj of the row of annual index i (no row beyond the
\* cash-flow list); i counts from 0.
cf_fcf_hist_adj(data, i) ==
    IF i >= Len(data.cf_l) THEN Null
    ELSE LET rec_cf == data.cf_l[i + 1]
             fcf    == IF rec_cf.dict THEN cf_s(Get(rec_cf, "freeCashFlow")) ELSE Null
             sbc    == IF rec_cf.dict THEN cf_s(Get(rec_cf, "stockBasedCompensation")) ELSE Null
         IN  IF ~IsNone(fcf) THEN PySub(fcf, PyOr(sbc, Num(0))) ELSE Null

\* cf_irr_tab._fcf_hist: adj_t of the TTM row.
cf_fcf_hist_adj_t(data) ==
    LET fcf_t == cf_ttm_flow(data.q_cf, "freeCashFlow")
        sbc_t == cf_ttm_flow(data.q_cf, "stockBasedCompensation")
    IN  IF ~IsNone(fcf_t) THEN PySub(fcf_t, PyOr(sbc_t, Num(0))) ELSE Null

\* The datasets: every list holds MaxPeriods records at most; a record of the
\* cash-flow statement carries freeCashFlow and stockBasedCompensation as the
\* provider sends them, a record of the income statement may carry
\* stockBasedCompensation too.
MaxPeriods == 2

AdjFcfValues == {Absent, Null, Num(0), Num(1), Num(5)}

AdjFcfDataSet(n, fcf, sbc_cf, sbc_is) ==
    [is_l |-> [i \in 1 .. n |-> ARec(i, "stockBasedCompensation" :> sbc_is)],
     bs_l |-> <<>>,
     cf_l |-> [i \in 1 .. n |->
                 ARec(i, ("freeCashFlow" :> fcf) @@ ("stockBasedCompensation" :> sbc_cf))],
     q_is |-> [i \in 1 .. n |-> QRec(i, "stockBasedCompensation" :> sbc_is)],
     q_bs |-> <<>>,
     q_cf |-> [i \in 1 .. n |->
                 QRec(i, ("freeCashFlow" :> fcf) @@ ("stockBasedCompensation" :> sbc_cf))],
     rt_l |-> <<>>]

AdjFcfFamily ==
    {AdjFcfDataSet(n, fcf, sbc_cf, sbc_is) :
        n \in 0 .. MaxPeriods, fcf \in {Absent, Null, Num(8)},
        sbc_cf \in AdjFcfValues, sbc_is \in AdjFcfValues}

InitAdjFcf == InitData(AdjFcfFamily)

\* The periods asked for: an annual index, or the TTM.
AdjFcfPeriods == {[ttm |-> FALSE, i |-> i] : i \in 0 .. MaxPeriods} \cup {[ttm |-> TRUE, i |-> 0]}

Call_InsightsAgent_adj_fcf ==
    \E p \in AdjFcfPeriods :
        /\ fn' = "InsightsAgent._adj_fcf"
        /\ args' = p
        /\ ret' = [k |-> "adj_fcf",
                   v |-> IF p.ttm THEN InsightsAgent_ttm_adj_fcf(raw_data)
                         ELSE InsightsAgent_adj_fcf(raw_data.cf_l, raw_data.is_l, p.i)]
        /\ UNCHANGED <<session_state, raw_data, IrrVars>>

Call_FinancialExtras_adj_fcf ==
    \E p \in AdjFcfPeriods :
        /\ fn' = "FinancialExtras._adj_fcf"
        /\ args' = p
        /\ ret' = [k |-> "adj_fcf",
                   v |-> IF p.ttm THEN FinancialExtras_adj_fcf_ttm(raw_data)
                         ELSE FinancialExtras_adj_fcf_hist(raw_data, p.i)]
        /\ UNCHANGED <<session_state, raw_data, IrrVars>>

Call_fcf_hist ==
    \E p \in AdjFcfPeriods :
        /\ fn' = "cf_irr_tab._fcf_hist"
        /\ args' = p
        /\ ret' = [k |-> "adj_fcf",
                   v |-> IF p.ttm THEN cf_fcf_hist_adj_t(raw_data)
                         ELSE cf_fcf_hist_adj(raw_data, p.i)]
        /\ UNCHANGED <<session_state, raw_data, IrrVars>>

NextAdjFcf ==
    \/ Call_InsightsAgent_adj_fcf
    \/ Call_FinancialExtras_adj_fcf
    \/ Call_fcf_hist

SpecAdjFcf == InitAdjFcf /\ [][NextAdjFcf]_vars

----------------------------------------------------------------------------
(* C26                                                                      *)

AdjFcfFns == {"InsightsAgent._adj_fcf", "FinancialExtras._adj_fcf", "cf_irr_tab._fcf_hist"}

\* C26: the three implementations of adjusted FCF (= FCF - SBC) return the
\* same value on the same raw data, for every annual index and for the TTM.
C26_SameAdjFcf ==
    fn \in AdjFcfFns =>
        /\ ret.v = (IF args.ttm THEN InsightsAgent_ttm_adj_fcf(raw_data)
                    ELSE InsightsAgent_adj_fcf(raw_data.cf_l, raw_data.is_l, args.i))
        /\ ret.v = (IF args.ttm THEN FinancialExtras_adj_fcf_ttm(raw_data)
                    ELSE FinancialExtras_adj_fcf_hist(raw_data, args.i))
        /\ ret.v = (IF args.ttm THEN cf_fcf_hist_adj_t(raw_data)
                    ELSE cf_fcf_hist_adj(raw_data, args.i))

----------------------------------------------------------------------------
(* C27                                                                      *)

\* C27: on the same raw dataset InsightsAgent._piotroski() and
\* FinancialExtras._piotroski_at(0) return the same result: both null, or
\* the same score with each of the nine tests passing in the one exactly when
\* it passes in the other.
C27_SamePiotroski ==
    (fn \in PiotroskiFns /\ args.i = 0) =>
        /\ InsightsAgent_piotroski(raw_data) = FinancialExtras_piotroski_at(raw_data, 0)
        /\ ~IsNone(InsightsAgent_piotroski(raw_data)) =>
              InsightsAgent_piotroski_tests(raw_data)
                 = FinancialExtras_piotroski_tests(raw_data, 0)

----------------------------------------------------------------------------
(* The session across two tickers: the company page loads another ticker    *)
(* into the session that has shown the first one.                           *)

\* Two companies whose history gives different seeds for the assumptions.
TickerA == HistBase
TickerB ==
    [HistBase EXCEPT !.base_ebitda = Num(200), !.ebt_avg_mult = Num(9),
                     !.ebt_c5 = Frac(8, 100), !.fcf_c5 = Frac(3, 100),
                     !.adj_ps_ttm = Num(3), !.price = Num(60),
                     !.w.beta = Frac(8, 10), !.treasury_rate = Frac(40, 1000)]
Tickers == {TickerA, TickerB}

\* The exit multiples the user sets in the number input of Table 2.2.
ExitInputs == {Num(12)}

InitSwitch ==
    /\ raw_data \in Tickers
    /\ fn = "none"
    /\ args = NoEdit
    /\ ret = Null
    /\ IrrIdle
    /\ session_state = EmptySession

\* The number input cfirr_ebitda_exit: a keyed widget writes the session
\* before the script runs.
SetExitMultiple ==
    /\ fn = "render_cf_irr_tab"
    /\ \E v \in ExitInputs :
          /\ session_state["cfirr_ebitda_exit"] # v
          /\ session_state' = [session_state EXCEPT !["cfirr_ebitda_exit"] = v]
          /\ args' = [trigger |-> "widget", table |-> "cfirr_ebitda_exit",
                      year |-> 0, value |-> v]
    /\ fn' = "interaction"
    /\ UNCHANGED <<raw_data, ret, IrrVars>>

\* "Analyze" on the company page with another ticker: _load_ticker stores its
\* data and its treasury rate, and the script reruns.
SwitchTicker ==
    /\ fn = "render_cf_irr_tab"
    /\ \E new_candidate \in Tickers \ {raw_data} :
          /\ raw_data' = new_candidate
          /\ session_state' = [session_state EXCEPT
                                  !["treasury_rate"] = new_candidate.treasury_rate]
    /\ fn' = "_load_ticker"
    /\ args' = [NoEdit EXCEPT !.trigger = "load"]
    /\ UNCHANGED <<ret, IrrVars>>

NextSwitch ==
    \/ AppBootstrap
    \/ LoadTicker
    \/ RenderCfIrr
    \/ EditCell
    \/ SetExitMultiple
    \/ SwitchTicker

SpecSwitch == InitSwitch /\ [][NextSwitch]_vars

----------------------------------------------------------------------------
(* C28                                                                      *)

\* The growth sequences a ticker gives: the one seeded from its 5-year CAGR,
\* or the fixed fallback of 10% a year.
TickerRates(cagr) ==
    {Repeat(pct_default(cagr, Num(10)), Horizon), Repeat(Num(10), Horizon)}

\* C28: in the first pass after _load_ticker has loaded a ticker, the growth
\* sequences, the exit EV/EBITDA multiple and the beta the valuation works
\* with are derived from the data of that ticker or are the fixed fallbacks
\* (10% a year, 15.0, 1.0): never what the session holds from the ticker
\* shown before.
C28_PerTicker ==
    (fn = "render_cf_irr_tab" /\ args.trigger = "load") =>
        /\ Effective(ret.ebt_growth_rates) \in TickerRates(raw_data.ebt_c5)
        /\ Effective(ret.fcf_growth_rates) \in TickerRates(raw_data.fcf_c5)
        /\ session_state["cfirr_ebitda_exit"]
              \in {RenderDefault(session_state, raw_data)["cfirr_ebitda_exit"], Num(15)}
        /\ session_state["cfirr_wacc_beta"] \in {raw_data.w.beta, Num(1)}

----------------------------------------------------------------------------
(* C29                                                                      *)

\* src_wacc of the "Verify WACC Source" panel: the WACC from the fetched
\* treasury rate, the beta of the components and an equity risk premium of
\* 0.046.
src_wacc(w, ss) ==
    LET src_rf == IF ss["treasury_rate"].k = "absent" THEN Frac(42, 1000)
                  ELSE ss["treasury_rate"]
    IN  compute_wacc(w, src_rf, w.beta, Frac(46, 1000))

\* C29: in every pass of render_cf_irr_tab in which cfirr_wacc_override is
\* false, the WACC that discounts the target price is the sourced WACC.
C29_SourcedWacc ==
    (ret.k = "pass" /\ fn = "render_cf_irr_tab"
       /\ session_state["cfirr_wacc_override"] = PyFalse) =>
        ret.wacc = src_wacc(raw_data.w, session_state)

----------------------------------------------------------------------------
(* C30                                                                      *)

\* The TTM cells of a table, row by row (Absent for a row without one).
TtmCells(table) ==
    IF table.k = "rows" THEN [i \in 1 .. Len(table.rows) |-> table.rows[i].TTM] ELSE <<Raise>>

\* C30: for one DataNormalizer the TTM cell of every line item is the same in
\* build_table(mapping, 'annual') and build_table(mapping, 'quarterly'), both
\* present and equal or both absent, and a repeated call returns the same
\* table.
C30_SameTtm ==
    fn = "DataNormalizer.build_table" =>
        /\ TtmCells(build_table(raw_data, args.mapping, "annual"))
              = TtmCells(build_table(raw_data, args.mapping, "quarterly"))
        /\ ret = build_table(raw_data, args.mapping, args.p_type)

============================================================================
